---- MODULE Spec2Model ----
(***************************************************************************)
(* Model of the version-comparison and policy-evaluation engine of the     *)
(* image version analyzer: the gap calculator, the LTS policy checker, the *)
(* tag validator and selector, the version-level detector and the          *)
(* classification orchestrator (analyze_image_tags).                       *)
(*                                                                         *)
(* Text is modelled as a sequence of one-character strings, so that the    *)
(* regular expressions and the formatting of the program are computed      *)
(* character by character.  None is the empty tuple and a present value x  *)
(* is the one-element tuple <<x>>.                                         *)
(***************************************************************************)
EXTENDS Integers, Sequences, FiniteSets, TLC

VARIABLES
    phase,      \* "called" until the checked function returns, then "returned"
                \* ("raised" when it ends with an exception); the position of
                \* scan_repositories while repositories are scanned
    args,       \* the arguments of the call
    ret,        \* the return value, None before the return
    pc,         \* the position of analyze_image_tags
    status,     \* its status dict
    local,      \* its local variables: tags, recommended_tag, current_tag,
                \* base_image, version_level, is_valid_upgrade, version_gap_info
    invoked,    \* the collaborators it has called so far
    patterns,   \* ImageIgnoreManager.patterns
    supplied,   \* the patterns handed to the manager so far, as the caller
                \* meant them: stripped, blanks and file comments left out
    handed,     \* the list get_patterns returned to the caller, None before
    all_results,   \* the result list of a batch driver
    image_count,   \* the index of the image the driver's loop is at
    scan_results,  \* scan_results of a scanner
    futures,       \* the state of each submitted repository scan
    yielded        \* the futures as_completed has yielded so far

locals == <<pc, status, local, invoked>>

\* the ignore manager, the batch driver and the repository scanner
objects == <<patterns, supplied, handed, all_results, image_count,
             scan_results, futures, yielded>>

vars == <<phase, args, ret, locals, objects>>

-----------------------------------------------------------------------------
(* Bounds of the checked inputs *)

MaxLowMajor  == 1    \* low major components are 0..MaxLowMajor
MaxHighMajor == 10   \* high major components are 9..MaxHighMajor
MaxMinor     == 2    \* minor components are 0..MaxMinor
MaxPatch     == 1    \* patch components are 0..MaxPatch
MaxTags      == 2    \* the registry returns at most MaxTags tags
MaxThreshold == 2    \* thresholds are 1..MaxThreshold

-----------------------------------------------------------------------------
(* Text helpers: Python str operations and the regular expressions used *)

None == <<>>
Some(x) == <<x>>

Digits == <<"0", "1", "2", "3", "4", "5", "6", "7", "8", "9">>

IsDigit(c) == \E d \in 1..10 : Digits[d] = c

DigitVal(c) == (CHOOSE d \in 1..10 : Digits[d] = c) - 1

\* str(n) for a non-negative integer
RECURSIVE IntToStr(_)
IntToStr(n) ==
    IF n < 10 THEN <<Digits[n + 1]>>
    ELSE IntToStr(n \div 10) \o <<Digits[(n % 10) + 1]>>

\* int(s) for a digit string
RECURSIVE StrToInt(_)
StrToInt(s) ==
    IF s = <<>> THEN 0
    ELSE StrToInt(SubSeq(s, 1, Len(s) - 1)) * 10 + DigitVal(s[Len(s)])

\* the Python string of a character sequence
RECURSIVE Join(_)
Join(s) == IF s = <<>> THEN "" ELSE Head(s) \o Join(Tail(s))

StartsWith(s, p) == Len(s) >= Len(p) /\ SubSeq(s, 1, Len(p)) = p

\* p in s (substring)
Contains(s, p) ==
    \E i \in 1..(Len(s) - Len(p) + 1) : SubSeq(s, i, i + Len(p) - 1) = p

\* index of the first occurrence of character c in s, 0 when absent
FirstIndex(s, c) ==
    IF \E i \in 1..Len(s) : s[i] = c
    THEN CHOOSE i \in 1..Len(s) : s[i] = c /\ \A j \in 1..(i - 1) : s[j] # c
    ELSE 0

\* s.split(c)
RECURSIVE Split(_, _)
Split(s, c) ==
    LET i == FirstIndex(s, c) IN
    IF i = 0 THEN <<s>>
    ELSE <<SubSeq(s, 1, i - 1)>> \o Split(SubSeq(s, i + 1, Len(s)), c)

\* tag[1:] if tag.startswith('v') else tag
StripV(tag) == IF StartsWith(tag, <<"v">>) THEN Tail(tag) ELSE tag

\* re.sub(r'-.*$', '', s): everything from the first '-' is removed
StripSuffix(s) ==
    LET i == FirstIndex(s, "-") IN
    IF i = 0 THEN s ELSE SubSeq(s, 1, i - 1)

\* re.findall(r'\d+', s): the maximal digit runs of s, left to right
RECURSIVE DigitRunsFrom(_, _)
DigitRunsFrom(s, run) ==
    IF s = <<>> THEN (IF run = <<>> THEN <<>> ELSE <<run>>)
    ELSE IF IsDigit(Head(s)) THEN DigitRunsFrom(Tail(s), Append(run, Head(s)))
    ELSE (IF run = <<>> THEN <<>> ELSE <<run>>) \o DigitRunsFrom(Tail(s), <<>>)

FindDigitRuns(s) == DigitRunsFrom(s, <<>>)

\* range(a, b) of Python as a sequence
Range(a, b) == [k \in 1..(IF b > a THEN b - a ELSE 0) |-> a + k - 1]

\* x in list
InList(x, list) == \E k \in 1..Len(list) : list[k] = x

-----------------------------------------------------------------------------
(* Custom rules: a record keyed by the image base name; a rule is a record *)
(* with any of the fields level, lts_versions, step_by, skip_versions.     *)

NoRules == <<>>

HasRule(custom_rules, image_base, key) ==
    /\ DOMAIN custom_rules # {}
    /\ Join(image_base) \in DOMAIN custom_rules
    /\ key \in DOMAIN custom_rules[Join(image_base)]

RuleOf(custom_rules, image_base) == custom_rules[Join(image_base)]

-----------------------------------------------------------------------------
(* calculate_version_gap *)

\* skip_versions_of with the rule's skip_versions left unread
skip_versions_ignored(custom_rules, image_base) == <<>>

\* skip_versions of the image's rule, [] when there is none
skip_versions_of(custom_rules, image_base) ==
    IF HasRule(custom_rules, image_base, "skip_versions")
    THEN RuleOf(custom_rules, image_base).skip_versions
    ELSE <<>>

\* the version string with the 'v' prefix and the '-variant' suffix removed
clean_version_str(tag) == StripSuffix(StripV(tag))

\* the digit runs of a tag, padded with '0' to three and converted to integers
version_parts(tag) ==
    LET found  == FindDigitRuns(clean_version_str(tag))
        padded == found \o [k \in 1..(IF Len(found) < 3 THEN 3 - Len(found) ELSE 0) |-> <<"0">>]
    IN  [k \in 1..3 |-> StrToInt(padded[k])]

prefix_of(recommended_tag) ==
    IF StartsWith(recommended_tag, <<"v">>) THEN <<"v">> ELSE <<>>

\* version_str of the missing version j at loop index i (0 major, 1 minor, 2 patch)
version_str(i, prefix, current_parts, recommended_parts, j) ==
    IF i = 0
    THEN IF current_parts[1] = 0 /\ recommended_parts[1] = 0
         THEN prefix \o <<"0", ".">> \o IntToStr(j)
         ELSE prefix \o IntToStr(j)
    ELSE IF i = 1
    THEN prefix \o IntToStr(current_parts[1]) \o <<".">> \o IntToStr(j)
    ELSE prefix \o IntToStr(current_parts[1]) \o <<".">>
                \o IntToStr(current_parts[2]) \o <<".">> \o IntToStr(j)

\* missing_range with the recommended version left out of every range
missing_range_exclusive(i, current_parts, recommended_parts) ==
    IF i = 0
    THEN IF current_parts[1] = 0 /\ recommended_parts[1] = 0
         THEN Range(current_parts[2] + 1, recommended_parts[2])
         ELSE Range(current_parts[1] + 1, recommended_parts[1])
    ELSE IF i = 1
    THEN Range(current_parts[2] + 1, recommended_parts[2])
    ELSE Range(current_parts[3] + 1, recommended_parts[3])

\* the numbers j the loop at index i runs over
missing_range(i, current_parts, recommended_parts) ==
    IF i = 0
    THEN IF current_parts[1] = 0 /\ recommended_parts[1] = 0
         THEN Range(current_parts[2] + 1, recommended_parts[2] + 1)
         ELSE Range(current_parts[1] + 1, recommended_parts[1] + 1)
    ELSE IF i = 1
    THEN Range(current_parts[2] + 1, recommended_parts[2] + 1)
    ELSE Range(current_parts[3] + 1, recommended_parts[3] + 1)

\* the version strings of the numbers js that are not in skip_versions
RECURSIVE missing_versions_of(_, _, _, _, _, _)
missing_versions_of(js, i, prefix, current_parts, recommended_parts, skip_versions) ==
    IF js = <<>> THEN <<>>
    ELSE (IF ~InList(IntToStr(Head(js)), skip_versions)
          THEN <<version_str(i, prefix, current_parts, recommended_parts, Head(js))>>
          ELSE <<>>)
         \o missing_versions_of(Tail(js), i, prefix, current_parts,
                                recommended_parts, skip_versions)

\* step_gap without the division by step_by
step_gap_unscaled(current_parts, recommended_parts, step_by) ==
    recommended_parts[1] - current_parts[1]

\* real_gap under a step_by rule on the major axis
step_gap(current_parts, recommended_parts, step_by) ==
    LET diff == recommended_parts[1] - current_parts[1] IN
    IF diff % step_by = 0
    THEN diff \div step_by                      \* steps.is_integer(): int(steps)
    ELSE IF diff > 0 THEN diff \div step_by     \* int(steps) if steps > 0
    ELSE 1

\* the branch recommended_parts[i] > current_parts[i]
gap_at(i, prefix, current_parts, recommended_parts, custom_rules, image_base) ==
    LET missing_versions ==
            missing_versions_of(missing_range(i, current_parts, recommended_parts),
                                i, prefix, current_parts, recommended_parts,
                                skip_versions_of(custom_rules, image_base))
        real_gap ==
            IF HasRule(custom_rules, image_base, "step_by") /\ i = 0
            THEN step_gap(current_parts, recommended_parts,
                          RuleOf(custom_rules, image_base).step_by)
            ELSE Len(missing_versions)
    IN  <<real_gap, missing_versions>>

\* current_is_newer without the branch for a newer current version
current_is_newer_unchecked(i, current_parts, recommended_parts) == FALSE

\* current is newer at index i
current_is_newer(i, current_parts, recommended_parts) ==
    recommended_parts[i + 1] < current_parts[i + 1]

\* the loop over range(version_level), from index i on
RECURSIVE compare_from(_, _, _, _, _, _, _)
compare_from(i, version_level, prefix, current_parts, recommended_parts, custom_rules, image_base) ==
    IF i >= version_level \/ i >= 3 THEN <<0, <<>>>>
    ELSE IF recommended_parts[i + 1] > current_parts[i + 1]
    THEN gap_at(i, prefix, current_parts, recommended_parts, custom_rules, image_base)
    ELSE IF current_is_newer(i, current_parts, recommended_parts)
    THEN <<0, <<>>>>
    ELSE compare_from(i + 1, version_level, prefix, current_parts,
                      recommended_parts, custom_rules, image_base)

\* (gap, missing_versions), or None when a tag has no numeric component
calculate_version_gap(current_tag, recommended_tag, version_level, custom_rules, image_base) ==
    IF \/ FindDigitRuns(clean_version_str(current_tag)) = <<>>
       \/ FindDigitRuns(clean_version_str(recommended_tag)) = <<>>
    THEN None
    ELSE Some(compare_from(0, version_level, prefix_of(recommended_tag),
                           version_parts(current_tag),
                           version_parts(recommended_tag),
                           custom_rules, image_base))

-----------------------------------------------------------------------------
(* is_valid_version_tag *)

LowerLetters ==
    {"a", "b", "c", "d", "e", "f", "g", "h", "i", "j", "k", "l", "m",
     "n", "o", "p", "q", "r", "s", "t", "u", "v", "w", "x", "y", "z"}

AllDigits(s) == \A k \in 1..Len(s) : IsDigit(s[k])

\* \d+(\.\d+)* : non-empty digit groups separated by single dots
IsDottedDigits(s) ==
    LET groups == Split(s, ".") IN
    \A k \in 1..Len(groups) : groups[k] # <<>> /\ AllDigits(groups[k])

\* the text before the first '-', the whole text when there is none
BeforeDash(s) == StripSuffix(s)

\* the text after the first '-'; only used when there is one
AfterDash(s) == SubSeq(s, FirstIndex(s, "-") + 1, Len(s))

HasDash(s) == FirstIndex(s, "-") # 0

\* re.match(r'^v?\d+(\.\d+){0,3}(-[a-z0-9]+)?$', tag)
MatchesVersionPattern(tag) ==
    LET body == StripV(tag)
        head == BeforeDash(body)
    IN  /\ IsDottedDigits(head)
        /\ Len(Split(head, ".")) <= 4
        /\ HasDash(body) =>
              /\ AfterDash(body) # <<>>
              /\ \A k \in 1..Len(AfterDash(body)) :
                     AfterDash(body)[k] \in LowerLetters \/ IsDigit(AfterDash(body)[k])

RECURSIVE SumLen(_)
SumLen(runs) == IF runs = <<>> THEN 0 ELSE Len(Head(runs)) + SumLen(Tail(runs))

\* is_valid_version_tag with the pattern as its only test
is_valid_version_tag_pattern_only(tag) == MatchesVersionPattern(tag)

is_valid_version_tag(tag) ==
    IF AllDigits(tag) /\ Len(tag) >= 6 THEN FALSE
    ELSE IF Len(FindDigitRuns(tag)) > 4 THEN FALSE
    ELSE IF SumLen(FindDigitRuns(tag)) > 8 THEN FALSE
    ELSE MatchesVersionPattern(tag)

-----------------------------------------------------------------------------
(* packaging.version: parse and the sort key of a release *)

RECURSIVE ToInts(_)
ToInts(groups) ==
    IF groups = <<>> THEN <<>> ELSE <<StrToInt(Head(groups))>> \o ToInts(Tail(groups))

\* the release of a dotted digit string
version_parse(text) == ToInts(Split(text, "."))

\* the comparison key of a release: trailing zeros are dropped
RECURSIVE release_key(_)
release_key(release) ==
    IF release # <<>> /\ release[Len(release)] = 0
    THEN release_key(SubSeq(release, 1, Len(release) - 1))
    ELSE release

\* tuple comparison a < b
RECURSIVE TupleLess(_, _)
TupleLess(a, b) ==
    IF b = <<>> THEN FALSE
    ELSE IF a = <<>> THEN TRUE
    ELSE IF Head(a) # Head(b) THEN Head(a) < Head(b)
    ELSE TupleLess(Tail(a), Tail(b))

VersionLess(a, b) == TupleLess(release_key(a), release_key(b))

-----------------------------------------------------------------------------
(* find_recommended_tag *)

PreReleaseMarkers ==
    { <<"a", "l", "p", "h", "a">>, <<"b", "e", "t", "a">>, <<"r", "c">>,
      <<"d", "e", "v">>, <<"t", "e", "s", "t">> }

is_prerelease(tag) == \E x \in PreReleaseMarkers : Contains(tag, x)

\* group(2) of re.match(r'^v?\d+(\.\d+)*-(.+)$', tag), None without a match
variant_of(tag) ==
    LET body == StripV(tag) IN
    IF HasDash(body) /\ IsDottedDigits(BeforeDash(body)) /\ AfterDash(body) # <<>>
    THEN Some(AfterDash(body))
    ELSE None

\* group(1) of re.match(r'^(v?\d+(\.\d+)*)(-.*)?$', tag) when the tag is kept
\* by the loop over tags: not a pre-release, matched, base version valid
base_version_of(tag) ==
    IF is_prerelease(tag) THEN None
    ELSE IF ~IsDottedDigits(BeforeDash(StripV(tag))) THEN None
    ELSE IF ~is_valid_version_tag(BeforeDash(tag)) THEN None
    ELSE Some(BeforeDash(tag))

\* the keys of the dict base_versions, in insertion order
RECURSIVE base_version_keys(_, _)
base_version_keys(tags, seen) ==
    IF tags = <<>> THEN seen
    ELSE LET b == base_version_of(Head(tags)) IN
         IF b # None /\ ~InList(b[1], seen)
         THEN base_version_keys(Tail(tags), Append(seen, b[1]))
         ELSE base_version_keys(Tail(tags), seen)

\* base_versions[base]: the tags of the base version, in the order of tags
RECURSIVE tags_of_base(_, _)
tags_of_base(tags, base) ==
    IF tags = <<>> THEN <<>>
    ELSE (IF base_version_of(Head(tags)) = Some(base) THEN <<Head(tags)>> ELSE <<>>)
         \o tags_of_base(Tail(tags), base)

\* newest_base_version_of answering the first base version found
newest_base_version_first(keys) == keys[1]

\* sorted(numeric_versions)[-1][1]: sorted is stable, so among the base
\* versions of the greatest version the last inserted is the last
newest_base_version_of(keys) ==
    LET ver(k) == version_parse(StripV(keys[k]))
        k == CHOOSE k \in 1..Len(keys) :
                 /\ \A j \in 1..Len(keys) : ~VersionLess(ver(k), ver(j))
                 /\ \A j \in (k + 1)..Len(keys) : VersionLess(ver(j), ver(k))
    IN  keys[k]

\* the first element of list satisfying the test given as a set of accepted tags
RECURSIVE first_in(_, _)
first_in(list, accepted) ==
    IF list = <<>> THEN None
    ELSE IF Head(list) \in accepted THEN Some(Head(list))
    ELSE first_in(Tail(list), accepted)

SeqRange(list) == {list[k] : k \in 1..Len(list)}

\* simplest_tag answering the first tag of the newest version at once
simplest_tag_first(newest_version_tags, newest_base_version) ==
    newest_version_tags[1]

\* the fallback to the newest tag: the bare base version, else the first tag
simplest_tag(newest_version_tags, newest_base_version) ==
    IF InList(newest_base_version, newest_version_tags)
    THEN newest_base_version
    ELSE newest_version_tags[1]

\* the tag chosen for the variant of the current tag, None when there is none
variant_tag(tags, newest_version_tags, newest_base_version, current_variant) ==
    LET exact == first_in(newest_version_tags,
                          {t \in SeqRange(newest_version_tags) :
                               variant_of(t) = Some(current_variant)})
        variant_search == newest_base_version \o <<"-">> \o current_variant
    IN  IF exact # None THEN exact
        ELSE first_in(tags, {t \in SeqRange(tags) : StartsWith(t, variant_search)})

\* current_tag is None or Some(tag)
find_recommended_tag(tags, current_tag) ==
    IF tags = <<>> THEN None
    ELSE
    LET current_variant ==
            IF current_tag # None /\ current_tag[1] # <<>>
            THEN variant_of(current_tag[1]) ELSE None
        keys == base_version_keys(tags, <<>>)
    IN  IF keys = <<>> THEN None
        ELSE
        LET newest_base_version == newest_base_version_of(keys)
            newest_version_tags == tags_of_base(tags, newest_base_version)
            by_variant ==
                IF current_variant # None
                THEN variant_tag(tags, newest_version_tags, newest_base_version,
                                 current_variant[1])
                ELSE None
        IN  IF by_variant # None THEN by_variant
            ELSE Some(simplest_tag(newest_version_tags, newest_base_version))

-----------------------------------------------------------------------------
(* check_lts_version *)

\* int(group(1)) of re.search(r'^\D*(\d+)', tag), None without a digit
leading_int(tag) ==
    IF tag = None \/ tag[1] = <<>> \/ FindDigitRuns(tag[1]) = <<>> THEN None
    ELSE Some(StrToInt(FindDigitRuns(tag[1])[1]))

\* next_lts_of answering the current major itself
next_lts_at_current(lts_versions, current_major) == Some(current_major)

\* the smallest LTS version above current_major, None when there is none
next_lts_of(lts_versions, current_major) ==
    LET above == {l \in lts_versions : l > current_major} IN
    IF above = {} THEN None
    ELSE Some(CHOOSE l \in above : \A m \in above : l <= m)

\* check_lts_version without the return for a current version that is not LTS
check_lts_version_strict(current_tag, recommended_tag, custom_rules, image_base) ==
    IF ~HasRule(custom_rules, image_base, "lts_versions") THEN TRUE
    ELSE
    LET lts_versions == RuleOf(custom_rules, image_base).lts_versions
        current_major == leading_int(current_tag)
        recommended_major == leading_int(recommended_tag)
    IN  IF recommended_major # None /\ recommended_major[1] \in lts_versions
        THEN TRUE
        ELSE IF current_major # None /\ recommended_major # None
        THEN LET next_lts == next_lts_of(lts_versions, current_major[1]) IN
             next_lts # None /\ next_lts[1] # 0 /\ recommended_major[1] > next_lts[1]
        ELSE TRUE

\* current_tag and recommended_tag are None or Some(tag)
check_lts_version(current_tag, recommended_tag, custom_rules, image_base) ==
    IF ~HasRule(custom_rules, image_base, "lts_versions") THEN TRUE
    ELSE
    LET lts_versions == RuleOf(custom_rules, image_base).lts_versions
        current_major == leading_int(current_tag)
        recommended_major == leading_int(recommended_tag)
    IN  IF current_major # None /\ current_major[1] \notin lts_versions THEN TRUE
        ELSE IF recommended_major # None /\ recommended_major[1] \in lts_versions
        THEN TRUE
        ELSE IF current_major # None /\ recommended_major # None
        THEN LET next_lts == next_lts_of(lts_versions, current_major[1]) IN
             \* "if next_lts:" is false for None and for 0
             next_lts # None /\ next_lts[1] # 0 /\ recommended_major[1] > next_lts[1]
        ELSE TRUE

-----------------------------------------------------------------------------
(* detect_version_level *)

special_cases ==
    [debian |-> 1, ubuntu |-> 1, centos |-> 1, alpine |-> 2, nginx |-> 2,
     node |-> 1, python |-> 2, php |-> 2, golang |-> 2, postgres |-> 2,
     mysql |-> 1, mariadb |-> 2, mongo |-> 2, redis |-> 2]

\* base_image_name.split('/')[-1]
last_segment(name) == Split(name, "/")[Len(Split(name, "/"))]

\* [tag for tag in tags if is_valid_version_tag(tag)]
RECURSIVE version_tags_of(_)
version_tags_of(tags) ==
    IF tags = <<>> THEN <<>>
    ELSE (IF is_valid_version_tag(Head(tags)) THEN <<Head(tags)>> ELSE <<>>)
         \o version_tags_of(Tail(tags))

\* the clean_tag of every version tag
clean_tags_of(version_tags) ==
    [k \in 1..Len(version_tags) |-> clean_version_str(version_tags[k])]

\* sorted(parsed_versions, key=version): a stable sort
RECURSIVE sort_versions(_)
sort_versions(clean_tags) ==
    IF clean_tags = <<>> THEN <<>>
    ELSE LET x == clean_tags[Len(clean_tags)]
             sorted == sort_versions(SubSeq(clean_tags, 1, Len(clean_tags) - 1))
             n == Cardinality({k \in 1..Len(sorted) :
                      ~VersionLess(version_parse(x), version_parse(sorted[k]))})
         IN  SubSeq(sorted, 1, n) \o <<x>> \o SubSeq(sorted, n + 1, Len(sorted))

\* the parts of a clean tag, padded with '0' to three
padded_parts(clean_tag) ==
    LET parts == Split(clean_tag, ".") IN
    parts \o [k \in 1..(IF Len(parts) < 3 THEN 3 - Len(parts) ELSE 0) |-> <<"0">>]

\* changed_level answering the last part in which two versions differ
changed_level_last(prev, curr) ==
    LET prev_parts == padded_parts(prev)
        curr_parts == padded_parts(curr)
        D == {j \in 1..3 : prev_parts[j] # curr_parts[j]}
    IN  IF D = {} THEN 0 ELSE CHOOSE j \in D : \A m \in D : j >= m

\* the level (1..3) of the first part in which two versions differ, 0 if none
changed_level(prev, curr) ==
    LET prev_parts == padded_parts(prev)
        curr_parts == padded_parts(curr)
        D == {j \in 1..3 : prev_parts[j] # curr_parts[j]}
    IN  IF D = {} THEN 0 ELSE CHOOSE j \in D : \A m \in D : j <= m

\* the levels counted in level_changes, one per adjacent pair that differs
RECURSIVE level_changes_of(_)
level_changes_of(sorted_versions) ==
    IF Len(sorted_versions) < 2 THEN <<>>
    ELSE (IF changed_level(sorted_versions[1], sorted_versions[2]) # 0
          THEN <<changed_level(sorted_versions[1], sorted_versions[2])>>
          ELSE <<>>)
         \o level_changes_of(Tail(sorted_versions))

\* max(counts.items(), key=count)[0] of the dict counting the elements of a
\* list: the first counted element among those counted most often
most_common(list) ==
    LET count(x) == Cardinality({k \in 1..Len(list) : list[k] = x})
        k == CHOOSE k \in 1..Len(list) :
                 /\ \A j \in 1..Len(list) : count(list[j]) <= count(list[k])
                 /\ \A j \in 1..(k - 1) : count(list[j]) < count(list[k])
    IN  list[k]

\* level_of_pattern answering the number of parts itself
level_of_pattern_uncapped(most_common_pattern) == most_common_pattern

\* the level for the most common number of dot-separated parts
level_of_pattern(most_common_pattern) ==
    IF most_common_pattern = 1 THEN 1 ELSE 2

\* detect_version_level looking in the built-in table before the custom rules
detect_version_level_table_first(tags, base_image_name, custom_rules) ==
    LET image_base == last_segment(base_image_name) IN
    IF Join(image_base) \in DOMAIN special_cases
    THEN special_cases[Join(image_base)]
    ELSE IF HasRule(custom_rules, image_base, "level")
    THEN RuleOf(custom_rules, image_base).level
    ELSE 1

detect_version_level(tags, base_image_name, custom_rules) ==
    LET image_base == last_segment(base_image_name)
        version_tags == version_tags_of(tags)
        clean_tags == clean_tags_of(version_tags)
        level_changes ==
            IF Len(version_tags) > 1
            THEN level_changes_of(sort_versions(clean_tags))
            ELSE <<>>
        pattern_counts == [k \in 1..Len(clean_tags) |-> Len(Split(clean_tags[k], "."))]
    IN  IF HasRule(custom_rules, image_base, "level")
        THEN RuleOf(custom_rules, image_base).level
        ELSE IF Join(image_base) \in DOMAIN special_cases
        THEN special_cases[Join(image_base)]
        ELSE IF version_tags = <<>> THEN 1
        ELSE IF level_changes # <<>> THEN most_common(level_changes)
        ELSE level_of_pattern(most_common(pattern_counts))

-----------------------------------------------------------------------------
(* is_supported_registry, get_public_image_name *)

unsupported_registries ==
    << <<"g", "c", "r", ".", "i", "o">>,
       <<"k", "8", "s", ".", "g", "c", "r", ".", "i", "o">>,
       <<"a", "s", "i", "a", ".", "g", "c", "r", ".", "i", "o">>,
       <<"e", "u", ".", "g", "c", "r", ".", "i", "o">>,
       <<"u", "s", ".", "g", "c", "r", ".", "i", "o">>,
       <<"g", "h", "c", "r", ".", "i", "o">>,
       <<"q", "u", "a", "y", ".", "i", "o">>,
       <<"e", "c", "r", ".", "a", "w", "s">> >>

\* the first unsupported registry contained in the image name, None if none
unsupported_registry_of(image_name) ==
    first_in(unsupported_registries,
             {r \in SeqRange(unsupported_registries) : Contains(image_name, r)})

\* is_supported_registry comparing the whole image name with each registry
is_supported_registry_exact(image_name) ==
    ~InList(image_name, unsupported_registries)

is_supported_registry(image_name) == unsupported_registry_of(image_name) = None

\* '/'.join(parts)
RECURSIVE SlashJoin(_)
SlashJoin(parts) ==
    IF parts = <<>> THEN <<>>
    ELSE IF Len(parts) = 1 THEN parts[1]
    ELSE parts[1] \o <<"/">> \o SlashJoin(Tail(parts))

\* the image name with the prefix of the private registry removed
strip_registry(image_name, registry) ==
    LET parts == Split(image_name, "/")
        registry_base == Split(registry, "/")[1]
        i == CHOOSE i \in 1..Len(parts) :
                 /\ Contains(parts[i], registry_base)
                 /\ \A j \in 1..(i - 1) : ~Contains(parts[j], registry_base)
    IN  SlashJoin(SubSeq(parts, i + 1, Len(parts)))

\* private_registries is a list of registry prefixes, empty for None
get_public_image_name(image_name, private_registries) ==
    LET found == first_in(private_registries,
                          {r \in SeqRange(private_registries) : Contains(image_name, r)})
    IN  IF found = None THEN image_name
        ELSE strip_registry(image_name, found[1])

-----------------------------------------------------------------------------
(* Inputs of the gap calculator: tags written from their numeric components *)

Majors == (0..MaxLowMajor) \cup (9..MaxHighMajor)

\* the numeric components of the checked tags: one, two or three segments
ComponentLists ==
    {<<a>> : a \in Majors}
    \cup {<<a, b>> : a \in Majors, b \in 0..MaxMinor}
    \cup {<<a, b, c>> : a \in Majors, b \in 0..MaxMinor, c \in 0..MaxPatch}

\* '.'.join(str(n) for n in nums)
RECURSIVE DotJoin(_)
DotJoin(nums) ==
    IF Len(nums) = 1 THEN IntToStr(nums[1])
    ELSE IntToStr(nums[1]) \o <<".">> \o DotJoin(Tail(nums))

TagText(nums, prefix, suffix) == prefix \o DotJoin(nums) \o suffix

\* nums padded with 0 to three components
Padded(nums) == [k \in 1..3 |-> IF k <= Len(nums) THEN nums[k] ELSE 0]

V == <<"v">>
Alpine == <<"-", "a", "l", "p", "i", "n", "e">>
Slim == <<"-", "s", "l", "i", "m">>
node == <<"n", "o", "d", "e">>
python == <<"p", "y", "t", "h", "o", "n">>

\* how the two tags of a call are decorated: prefix and suffix of each
Decorations ==
    { [cp |-> <<>>, cs |-> <<>>,   rp |-> <<>>, rs |-> <<>>],
      [cp |-> V,    cs |-> <<>>,   rp |-> V,    rs |-> <<>>],
      [cp |-> <<>>, cs |-> Slim,   rp |-> <<>>, rs |-> Alpine],
      [cp |-> <<>>, cs |-> <<>>,   rp |-> V,    rs |-> Alpine] }

GapRules ==
    { NoRules,
      [node |-> [skip_versions |-> <<IntToStr(10), IntToStr(1)>>]],
      [node |-> [step_by |-> 2]],
      [python |-> [skip_versions |-> <<IntToStr(10)>>, step_by |-> 2]],
      [node |-> [skip_versions |-> <<IntToStr(10)>>, step_by |-> 2]] }

GapCalls ==
    { [fn |-> "calculate_version_gap",
       current_nums |-> c, recommended_nums |-> r,
       current_tag |-> TagText(c, d.cp, d.cs),
       recommended_tag |-> TagText(r, d.rp, d.rs),
       version_level |-> l, custom_rules |-> cr, image_base |-> node] :
      c \in ComponentLists, r \in ComponentLists, d \in Decorations,
      l \in 1..3, cr \in GapRules }

\* the local variables before the first assignment
NoLocals ==
    [tags |-> <<>>, recommended_tag |-> None, current_tag |-> None,
     base_image |-> <<>>, version_level |-> 0, is_valid_upgrade |-> TRUE,
     version_gap_info |-> None]

\* no ImageIgnoreManager is in use
NoManager ==
    /\ patterns = <<>>
    /\ supplied = <<>>
    /\ handed = None

\* no batch driver is running
NoBatch ==
    /\ all_results = <<>>
    /\ image_count = 0

\* no scanner is running
NoScanner ==
    /\ scan_results = <<>>
    /\ futures = <<>>
    /\ yielded = {}

NoObjects == NoManager /\ NoBatch /\ NoScanner

\* analyze_image_tags is not running
NotAnalyzing ==
    /\ pc = "IDLE"
    /\ status = None
    /\ local = NoLocals
    /\ invoked = {}

InitGap ==
    /\ phase = "called"
    /\ args \in GapCalls
    /\ ret = None
    /\ NotAnalyzing
    /\ NoObjects

\* the call of calculate_version_gap returns
GapReturns ==
    /\ phase = "called"
    /\ args.fn = "calculate_version_gap"
    /\ ret' = calculate_version_gap(args.current_tag, args.recommended_tag,
                                    args.version_level, args.custom_rules,
                                    args.image_base)
    /\ phase' = "returned"
    /\ UNCHANGED <<args, locals, objects>>

NextGap == GapReturns

SpecGap == InitGap /\ [][NextGap]_vars

GapReturned == phase = "returned" /\ args.fn = "calculate_version_gap"

\* the first index (1 major, 2 minor, 3 patch) up to the level at which the
\* components the tags were written from differ, 0 when none does
FirstDiff ==
    LET c == Padded(args.current_nums)
        r == Padded(args.recommended_nums)
        D == {k \in 1..args.version_level : c[k] # r[k]}
    IN  IF D = {} THEN 0 ELSE CHOOSE k \in D : \A m \in D : k <= m

\* '{prefix}{n}', '{prefix}{major}.{n}' or '{prefix}{major}.{minor}.{n}'
AxisVersion(k, n) ==
    LET c == Padded(args.current_nums)
        p == IF Head(args.recommended_tag) = "v" THEN <<"v">> ELSE <<>>
    IN  p \o DotJoin(SubSeq(c, 1, k - 1) \o <<n>>)

\* C9: with no custom rules, when the recommended tag is greater at the first
\* differing component i below the level, the gap is recommended[i] - current[i]
\* and the missing versions are the axis versions current[i]+1 .. recommended[i]
\* in ascending order, with the recommended tag's 'v' prefix.
C9_GapAndMissingAtAxis ==
    (GapReturned /\ args.custom_rules = NoRules /\ FirstDiff # 0)
    => LET c == Padded(args.current_nums)
           r == Padded(args.recommended_nums)
           i == FirstDiff
       IN  r[i] > c[i]
           => ret = Some(<<r[i] - c[i],
                           [k \in 1..(r[i] - c[i]) |-> AxisVersion(i, c[i] + k)]>>)

\* a minor-axis gap of at least two, written with the 'v' prefix
C9_Witness ==
    /\ GapReturned /\ args.custom_rules = NoRules
    /\ FirstDiff = 2
    /\ Padded(args.recommended_nums)[2] >= Padded(args.current_nums)[2] + 2
    /\ Padded(args.current_nums)[1] >= 10
    /\ Head(args.recommended_tag) = "v"
    /\ ret # None /\ Len(ret[1][2]) >= 2

\* C10: (0, []) is returned when current is ahead at the first differing
\* component below the level and when no component below the level differs.
C10_AheadOrEqualIsZero ==
    GapReturned
    => LET c == Padded(args.current_nums)
           r == Padded(args.recommended_nums)
           i == FirstDiff
       IN  (i = 0 \/ c[i] > r[i]) => ret = Some(<<0, <<>>>>)

\* current ahead in the major component although behind in the minor one
C10_Witness ==
    /\ GapReturned
    /\ args.version_level >= 2
    /\ Padded(args.current_nums)[1] > Padded(args.recommended_nums)[1]
    /\ Padded(args.current_nums)[2] < Padded(args.recommended_nums)[2]
    /\ ret = Some(<<0, <<>>>>)

\* tags that differ only beyond the level, or only in the variant suffix
C10_WitnessEqual ==
    /\ GapReturned
    /\ FirstDiff = 0
    /\ args.current_tag # args.recommended_tag
    /\ ret = Some(<<0, <<>>>>)

\* the rule of the call's image has the key
CallHasRule(key) == HasRule(args.custom_rules, args.image_base, key)

\* the axis numbers current[i]+1 .. recommended[i] whose decimal string is not
\* in the rule's skip_versions, written as axis versions
SkipFilteredMissing ==
    LET c == Padded(args.current_nums)
        r == Padded(args.recommended_nums)
        i == FirstDiff
        skips == IF CallHasRule("skip_versions")
                 THEN LET list == args.custom_rules[Join(args.image_base)].skip_versions
                      IN  {StrToInt(list[k]) : k \in 1..Len(list)}
                 ELSE {}
        kept(n) == n \notin skips
        numbers == SelectSeq([k \in 1..(r[i] - c[i]) |-> c[i] + k], kept)
    IN  [k \in 1..Len(numbers) |-> AxisVersion(i, numbers[k])]

\* the recommended tag is greater at the first differing component
BehindAtAxis ==
    /\ GapReturned
    /\ FirstDiff # 0
    /\ Padded(args.recommended_nums)[FirstDiff] > Padded(args.current_nums)[FirstDiff]

\* a step_by rule rescales the gap: the rule has step_by and the axis is major
StepApplies == CallHasRule("step_by") /\ FirstDiff = 1

MajorDifference == Padded(args.recommended_nums)[1] - Padded(args.current_nums)[1]

StepBy == args.custom_rules[Join(args.image_base)].step_by

\* C11: with a skip_versions rule the missing versions are the intermediate
\* versions whose axis number is not in skip_versions, and unless a step_by
\* rule rescales it the gap is the length of that filtered list.
C11_SkippedVersionsDoNotCount ==
    (BehindAtAxis /\ CallHasRule("skip_versions"))
    => /\ ret # None
       /\ ret[1][2] = SkipFilteredMissing
       /\ ~StepApplies => ret[1][1] = Len(SkipFilteredMissing)

\* a gap made smaller than the arithmetic difference by a skipped version
C11_Witness ==
    /\ BehindAtAxis /\ CallHasRule("skip_versions") /\ ~StepApplies
    /\ ret # None
    /\ ret[1][1] >= 1
    /\ ret[1][1] < Padded(args.recommended_nums)[FirstDiff]
                    - Padded(args.current_nums)[FirstDiff]
    /\ Len(ret[1][2]) = ret[1][1]

\* C12: with step_by = N on the major axis and a difference that is a positive
\* multiple of N the gap is difference / N while the missing versions stay the
\* skip-filtered list; on the minor and patch axes step_by leaves the gap the
\* length of the skip-filtered list.
C12_StepByRescalesMajorGap ==
    (BehindAtAxis /\ CallHasRule("step_by"))
    => /\ (FirstDiff = 1 /\ MajorDifference % StepBy = 0)
          => ret = Some(<<MajorDifference \div StepBy, SkipFilteredMissing>>)
       /\ FirstDiff > 1
          => ret = Some(<<Len(SkipFilteredMissing), SkipFilteredMissing>>)

\* an aligned major upgrade whose gap in steps differs from the number of
\* missing versions left by the skip rule
C12_Witness ==
    /\ BehindAtAxis /\ StepApplies /\ CallHasRule("skip_versions")
    /\ MajorDifference % StepBy = 0
    /\ ret # None
    /\ ret[1][1] = MajorDifference \div StepBy
    /\ Len(ret[1][2]) = MajorDifference - 1

\* a minor-axis gap under a step_by rule
C12_WitnessMinor ==
    /\ BehindAtAxis /\ CallHasRule("step_by") /\ FirstDiff = 2
    /\ ret # None /\ ret[1][1] = 2

\* C13: with step_by = N on the major axis and a positive difference that is
\* not a multiple of N the gap is max(floor(difference / N), 1), never 0.
C13_MisalignedStepIsAtLeastOne ==
    (BehindAtAxis /\ StepApplies /\ MajorDifference % StepBy # 0)
    => /\ ret # None
       /\ ret[1][1] = (IF MajorDifference \div StepBy >= 1
                       THEN MajorDifference \div StepBy ELSE 1)

\* C14: at level 1, current 0.a and recommended 0.b with b > a give the gap
\* b - a and the missing versions 0.(a+1) .. 0.b.
C14_ZeroMajorUsesMinorAxis ==
    LET c == Padded(args.current_nums)
        r == Padded(args.recommended_nums)
        p == IF Head(args.recommended_tag) = "v" THEN <<"v">> ELSE <<>>
    IN  (/\ GapReturned /\ args.custom_rules = NoRules
         /\ args.version_level = 1
         /\ c[1] = 0 /\ r[1] = 0 /\ r[2] > c[2])
        => ret = Some(<<r[2] - c[2],
                        [k \in 1..(r[2] - c[2]) |-> p \o DotJoin(<<0, c[2] + k>>)]>>)

-----------------------------------------------------------------------------
(* Inputs of analyze_image_tags *)

img_node_16 == <<"n", "o", "d", "e", ":", "1", "6">>
img_node_18_alpine == <<"n", "o", "d", "e", ":", "1", "8", "-", "a", "l", "p", "i", "n", "e">>
img_node == <<"n", "o", "d", "e">>
img_python_3_9 == <<"p", "y", "t", "h", "o", "n", ":", "3", ".", "9">>
img_python_slim == <<"p", "y", "t", "h", "o", "n", ":", "s", "l", "i", "m">>
img_gcr == <<"g", "c", "r", ".", "i", "o", "/", "p", "r", "o", "j", "/", "a", "p", "p", ":", "1">>
img_port_untagged == <<"n", "o", "d", "e", ":", "5", "0", "0", "0", "/", "a", "p", "p">>
img_port_tagged == <<"l", "o", "c", "a", "l", "h", "o", "s", "t", ":", "5", "0", "0", "0", "/", "p", "y", "t", "h", "o", "n", ":", "3", ".", "9">>
img_tool == <<"a", "c", "m", "e", "/", "t", "o", "o", "l", ":", "1", ".", "0", ".", "0">>

ImageNames ==
    { img_node_16, img_node_18_alpine, img_node, img_python_3_9, img_python_slim,
      img_gcr, img_port_untagged, img_port_tagged, img_tool }

localhost_5000 == <<"l", "o", "c", "a", "l", "h", "o", "s", "t", ":", "5", "0", "0", "0">>

\* the tag names a registry may return
TagUniverse ==
    { <<"1", "6">>,
      <<"1", "7">>,
      <<"1", "8">>,
      <<"1", "8", "-", "a", "l", "p", "i", "n", "e">>,
      <<"3", ".", "9">>,
      <<"3", ".", "1", "2">>,
      <<"l", "a", "t", "e", "s", "t">>,
      <<"1", ".", "0", ".", "2">> }

\* what the registry returns: up to MaxTags distinct tag names, in any order;
\* the empty list also stands for a failed request
FetchResults ==
    UNION { {f \in [1..n -> TagUniverse] : \A i, j \in 1..n : i # j => f[i] # f[j]} :
            n \in 0..MaxTags }

AnalyzeRules ==
    { NoRules,
      [node |-> [lts_versions |-> {16, 18, 20}]],
      [node |-> [step_by |-> 2, skip_versions |-> <<IntToStr(17)>>],
       tool |-> [level |-> 3]] }

AnalyzeCalls ==
    { [fn |-> "analyze_image_tags", image_name |-> im, threshold |-> th,
       force_level |-> fl, private_registries |-> pr, custom_rules |-> cr] :
      im \in ImageNames, th \in 1..MaxThreshold, fl \in {None, Some(1)},
      pr \in {<<>>, <<localhost_5000>>}, cr \in AnalyzeRules }

-----------------------------------------------------------------------------
(* analyze_image_tags *)

level_name_of(level) ==
    IF level = 1 THEN "major" ELSE IF level = 2 THEN "minor" ELSE "patch"

\* the status dict a call starts with
default_status(image_name) ==
    [image |-> image_name, status |-> "UNKNOWN", gap |-> None,
     recommended |-> None, current |-> None,
     message |-> "Status could not be determined"]

\* parts[1] if len(parts) > 1 else None, for parts = public_image.split(':')
tag_part(public_image) ==
    LET parts == Split(public_image, ":") IN
    IF Len(parts) > 1 THEN Some(parts[2]) ELSE None

\* "if not current_tag": None or the empty string
no_current_tag(tag) == tag = None \/ tag[1] = <<>>

InitAnalyze ==
    /\ phase = "called"
    /\ args \in AnalyzeCalls
    /\ ret = None
    /\ pc = "REGISTRY_CHECK"
    /\ status = default_status(args.image_name)
    /\ local = NoLocals
    /\ invoked = {}
    /\ NoObjects

\* return status
Return(st) ==
    /\ status' = st
    /\ ret' = Some(st)
    /\ phase' = "returned"
    /\ pc' = "DONE"
    /\ UNCHANGED objects

\* go on at the position next, with the status st
Goto(next, st) ==
    /\ status' = st
    /\ pc' = next
    /\ UNCHANGED <<phase, ret, objects>>

\* is_supported_registry(image_name) and the early return
RegistryCheck ==
    /\ pc = "REGISTRY_CHECK"
    /\ invoked' = invoked \cup {"is_supported_registry"}
    /\ IF ~is_supported_registry(args.image_name)
       THEN Return([status EXCEPT !.message =
                "Registry " \o Join(unsupported_registry_of(args.image_name)[1])
                            \o " not supported"])
       ELSE Goto("TAG_FETCH", status)
    /\ UNCHANGED <<args, local>>

\* TagFetch without the return on an empty tag list
TagFetch_unchecked ==
    /\ pc = "TAG_FETCH"
    /\ invoked' = invoked \cup {"get_image_tags"}
    /\ \E fetched \in FetchResults :
          local' = [local EXCEPT
              !.tags = fetched,
              !.recommended_tag =
                  find_recommended_tag(fetched,
                      tag_part(get_public_image_name(args.image_name,
                                                     args.private_registries)))]
    /\ Goto("TAG_PARSE", status)
    /\ UNCHANGED args

\* get_image_tags(image_name, private_registries): the registry answers with
\* a list of tags, the recommended tag is selected from it
TagFetch ==
    /\ pc = "TAG_FETCH"
    /\ invoked' = invoked \cup {"get_image_tags"}
    /\ \E fetched \in FetchResults :
          local' = [local EXCEPT
              !.tags = fetched,
              !.recommended_tag =
                  find_recommended_tag(fetched,
                      tag_part(get_public_image_name(args.image_name,
                                                     args.private_registries)))]
    /\ IF local'.tags = <<>>
       THEN Return([status EXCEPT !.message =
                "No tags found or repository not accessible"])
       ELSE Goto("TAG_PARSE", status)
    /\ UNCHANGED args

\* the split of the public image name into base image and current tag
TagParse ==
    /\ pc = "TAG_PARSE"
    /\ LET public_image == get_public_image_name(args.image_name,
                                                 args.private_registries)
       IN  local' = [local EXCEPT !.base_image = Split(public_image, ":")[1],
                                  !.current_tag = tag_part(public_image)]
    /\ IF no_current_tag(local'.current_tag)
       THEN Return([status EXCEPT
                !.message = "No explicit tag specified (using 'latest')",
                !.status = "WARNING"])
       ELSE Goto("LEVEL_DETECT", status)
    /\ UNCHANGED <<args, invoked>>

\* no_recommended_status with the default UP-TO-DATE assigned before the test
no_recommended_status_defaulted(st) ==
    [st EXCEPT !.status = "UP-TO-DATE",
               !.message = "Could not determine newest version"]

\* the status when no recommended tag was selected
no_recommended_status(st) ==
    [st EXCEPT !.message = "Could not determine newest version"]

\* force_level if force_level else detect_version_level(...); without a
\* recommended tag the call ends here
LevelDetect ==
    /\ pc = "LEVEL_DETECT"
    /\ IF args.force_level # None /\ args.force_level[1] # 0
       THEN /\ local' = [local EXCEPT !.version_level = args.force_level[1]]
            /\ UNCHANGED invoked
       ELSE /\ local' = [local EXCEPT !.version_level =
                            detect_version_level(local.tags, local.base_image,
                                                 args.custom_rules)]
            /\ invoked' = invoked \cup {"detect_version_level"}
    /\ IF local.recommended_tag # None
       THEN Goto("LTS_CHECK", status)
       ELSE Return(no_recommended_status(status))
    /\ UNCHANGED args

\* the status once a recommended tag exists
up_to_date_status(st, recommended, current) ==
    [st EXCEPT !.status = "UP-TO-DATE", !.recommended = recommended,
               !.current = current, !.message = "Image is up-to-date"]

\* the gap is computed only for a current tag that differs from the recommended
needs_gap(current, recommended) == current # recommended

\* check_lts_version when the image has an lts_versions rule, then the
\* default status UP-TO-DATE
LtsCheck ==
    /\ pc = "LTS_CHECK"
    /\ LET image_base == last_segment(local.base_image) IN
       IF HasRule(args.custom_rules, image_base, "lts_versions")
       THEN /\ local' = [local EXCEPT !.is_valid_upgrade =
                            check_lts_version(local.current_tag, local.recommended_tag,
                                              args.custom_rules, image_base)]
            /\ invoked' = invoked \cup {"check_lts_version"}
       ELSE /\ local' = [local EXCEPT !.is_valid_upgrade = TRUE]
            /\ UNCHANGED invoked
    /\ IF needs_gap(local.current_tag, local.recommended_tag)
       THEN Goto("GAP_CALC",
                 up_to_date_status(status, local.recommended_tag, local.current_tag))
       ELSE Return(up_to_date_status(status, local.recommended_tag, local.current_tag))
    /\ UNCHANGED args

\* calculate_version_gap(current_tag, recommended_tag, version_level, ...)
GapCalc ==
    /\ pc = "GAP_CALC"
    /\ local' = [local EXCEPT !.version_gap_info =
                    calculate_version_gap(local.current_tag[1],
                                          local.recommended_tag[1],
                                          local.version_level, args.custom_rules,
                                          last_segment(local.base_image))]
    /\ invoked' = invoked \cup {"calculate_version_gap"}
    /\ Goto("CLASSIFY", status)
    /\ UNCHANGED args

\* classified without the test of the LTS check
classified_ignoring_lts(st, gap, threshold, valid_upgrade, level_name) ==
    LET behind == "Image is " \o Join(IntToStr(gap)) \o " " \o level_name
                              \o " version(s) behind"
        recorded == [st EXCEPT !.gap = Some(gap)]
    IN  IF gap > 0
        THEN IF gap >= threshold
             THEN [recorded EXCEPT !.status = "OUTDATED", !.message = behind]
             ELSE [recorded EXCEPT !.message =
                       behind \o " but within threshold ("
                              \o Join(IntToStr(threshold)) \o ")"]
        ELSE recorded

\* classified with the LTS check tested before the threshold
classified_lts_first(st, gap, threshold, valid_upgrade, level_name) ==
    LET behind == "Image is " \o Join(IntToStr(gap)) \o " " \o level_name
                              \o " version(s) behind"
        recorded == [st EXCEPT !.gap = Some(gap)]
    IN  IF gap > 0
        THEN IF ~valid_upgrade
             THEN [recorded EXCEPT !.status = "WARNING",
                       !.message = behind \o " but violates LTS policy"]
             ELSE IF gap >= threshold
             THEN [recorded EXCEPT !.status = "OUTDATED", !.message = behind]
             ELSE [recorded EXCEPT !.message =
                       behind \o " but within threshold ("
                              \o Join(IntToStr(threshold)) \o ")"]
        ELSE recorded

\* classified without the comparison of the gap with the threshold
classified_without_threshold(st, gap, threshold, valid_upgrade, level_name) ==
    LET behind == "Image is " \o Join(IntToStr(gap)) \o " " \o level_name
                              \o " version(s) behind"
        recorded == [st EXCEPT !.gap = Some(gap)]
    IN  IF gap > 0
        THEN IF ~valid_upgrade
             THEN [recorded EXCEPT !.status = "WARNING",
                       !.message = behind \o " but violates LTS policy"]
             ELSE [recorded EXCEPT !.status = "OUTDATED", !.message = behind]
        ELSE recorded

\* the status for a computed gap
classified(st, gap, threshold, valid_upgrade, level_name) ==
    LET behind == "Image is " \o Join(IntToStr(gap)) \o " " \o level_name
                              \o " version(s) behind"
        recorded == [st EXCEPT !.gap = Some(gap)]
    IN  IF gap > 0
        THEN IF gap >= threshold
             THEN IF ~valid_upgrade
                  THEN [recorded EXCEPT !.status = "WARNING",
                            !.message = behind \o " but violates LTS policy"]
                  ELSE [recorded EXCEPT !.status = "OUTDATED", !.message = behind]
             ELSE [recorded EXCEPT !.message =
                       behind \o " but within threshold ("
                              \o Join(IntToStr(threshold)) \o ")"]
        ELSE recorded

\* the decision on the gap, and the return
Classify ==
    /\ pc = "CLASSIFY"
    /\ IF local.version_gap_info # None
       THEN Return(classified(status, local.version_gap_info[1][1], args.threshold,
                              local.is_valid_upgrade,
                              level_name_of(local.version_level)))
       ELSE Return(status)
    /\ UNCHANGED <<args, local, invoked>>

NextAnalyze ==
    \/ RegistryCheck
    \/ TagFetch
    \/ TagParse
    \/ LevelDetect
    \/ LtsCheck
    \/ GapCalc
    \/ Classify

SpecAnalyze == InitAnalyze /\ [][NextAnalyze]_vars

Spec == SpecAnalyze

-----------------------------------------------------------------------------
(* Properties of analyze_image_tags *)

Returned == phase = "returned" /\ args.fn = "analyze_image_tags"

Verdict == ret[1]

\* the tag of an image reference: the text after the last ':' that is not
\* part of a registry host:port, None when there is none
ExplicitTagOf(reference) ==
    LET segments == Split(reference, "/")
        parts == Split(segments[Len(segments)], ":")
    IN  IF Len(parts) > 1 /\ parts[Len(parts)] # <<>>
        THEN Some(parts[Len(parts)]) ELSE None

\* the image is on a supported registry
Supported == \A r \in SeqRange(unsupported_registries) : ~Contains(args.image_name, r)

\* a gap was computed for a current tag that differs from the recommended tag
GapComputed ==
    /\ Returned
    /\ local.current_tag # None
    /\ local.recommended_tag # None
    /\ local.current_tag # local.recommended_tag
    /\ "calculate_version_gap" \in invoked
    /\ local.version_gap_info # None

ComputedGap == local.version_gap_info[1][1]

\* the result of the LTS check; valid when the image has no lts_versions rule
LtsValid ==
    LET image_base == last_segment(local.base_image) IN
    \/ ~HasRule(args.custom_rules, image_base, "lts_versions")
    \/ check_lts_version(local.current_tag, local.recommended_tag,
                         args.custom_rules, image_base)

BehindText ==
    "Image is " \o Join(IntToStr(ComputedGap)) \o " "
    \o (CASE local.version_level = 1 -> "major"
          [] local.version_level = 2 -> "minor"
          [] local.version_level = 3 -> "patch")
    \o " version(s) behind"

\* C1: a gap > 0 that reaches the threshold gives OUTDATED with the message
\* 'Image is {gap} {level} version(s) behind' when the LTS check is valid or
\* there is no lts_versions rule, and WARNING, never OUTDATED, when the LTS
\* check failed; gap, current and recommended are recorded in both cases.
C1_OutdatedUnlessLtsViolation ==
    (GapComputed /\ ComputedGap > 0 /\ ComputedGap >= args.threshold)
    => /\ Verdict.gap = Some(ComputedGap)
       /\ Verdict.current = local.current_tag
       /\ Verdict.recommended = local.recommended_tag
       /\ LtsValid => /\ Verdict.status = "OUTDATED"
                      /\ Verdict.message = BehindText
       /\ ~LtsValid => Verdict.status = "WARNING"

\* an upgrade that leaves the LTS track with a gap that reaches the threshold
C1_Witness ==
    /\ GapComputed /\ ComputedGap > 0 /\ ComputedGap >= args.threshold
    /\ ~LtsValid
    /\ Verdict.status = "WARNING"
    /\ Verdict.gap = Some(ComputedGap)

\* an outdated image without LTS violation
C1_WitnessOutdated ==
    /\ GapComputed /\ ComputedGap >= 2 /\ ComputedGap >= args.threshold
    /\ LtsValid
    /\ Verdict.status = "OUTDATED"

\* C2: a gap with 0 < gap < threshold gives UP-TO-DATE whatever the LTS check
\* returned, the gap is recorded and the message says the image is behind
\* 'but within threshold ({threshold})'.
C2_WithinThresholdIsUpToDate ==
    (GapComputed /\ ComputedGap > 0 /\ ComputedGap < args.threshold)
    => /\ Verdict.status = "UP-TO-DATE"
       /\ Verdict.gap = Some(ComputedGap)
       /\ Verdict.message = BehindText \o " but within threshold ("
                            \o Join(IntToStr(args.threshold)) \o ")"

\* a gap within the threshold although the LTS check failed
C2_Witness ==
    /\ GapComputed /\ ComputedGap > 0 /\ ComputedGap < args.threshold
    /\ ~LtsValid
    /\ Verdict.status = "UP-TO-DATE"

\* C3: when the explicit tag of the image equals the recommended tag, the
\* verdict is UP-TO-DATE with gap = 0 (not null), current = recommended = that
\* tag and the message 'Image is up-to-date'.
C3_EqualTagHasGapZero ==
    (/\ Returned
     /\ local.recommended_tag # None
     /\ ExplicitTagOf(args.image_name) = local.recommended_tag)
    => /\ Verdict.status = "UP-TO-DATE"
       /\ Verdict.gap = Some(0)
       /\ Verdict.current = local.recommended_tag
       /\ Verdict.recommended = local.recommended_tag
       /\ Verdict.message = "Image is up-to-date"

\* C4: when a recommended tag exists and differs from the current tag but
\* calculate_version_gap returns null, the returned status is not UP-TO-DATE
\* and the gap stays null.
C4_NullGapIsNotUpToDate ==
    (/\ Returned
     /\ local.recommended_tag # None
     /\ local.current_tag # local.recommended_tag
     /\ "calculate_version_gap" \in invoked
     /\ local.version_gap_info = None)
    => /\ Verdict.status # "UP-TO-DATE"
       /\ Verdict.gap = None

\* the tag list is not empty, the image has an explicit tag, and no
\* recommended tag could be selected
NoRecommendedTag ==
    /\ Returned
    /\ local.tags # <<>>
    /\ ExplicitTagOf(args.image_name) # None
    /\ local.recommended_tag = None

C6_UnsupportedRegistryIsUnknown ==
    [][ (args.fn = "analyze_image_tags" /\ ~Supported)
        => /\ phase' = "returned"
           /\ ret'[1].status = "UNKNOWN"
           /\ \E r \in SeqRange(unsupported_registries) :
                 /\ Contains(args.image_name, r)
                 /\ ret'[1].message = "Registry " \o Join(r) \o " not supported"
           /\ ret'[1].gap = None
           /\ ret'[1].current = None
           /\ ret'[1].recommended = None
           /\ "get_image_tags" \notin invoked' ]_vars

C6_Witness ==
    /\ Returned
    /\ ~Supported
    /\ Verdict.status = "UNKNOWN"
    /\ Verdict.message = "Registry gcr.io not supported"
    /\ invoked = {"is_supported_registry"}

\* the tag fetch of a supported image returned the empty list
FetchedNothing ==
    /\ Returned
    /\ Supported
    /\ "get_image_tags" \in invoked
    /\ local.tags = <<>>

\* C7: when the tag fetch returns an empty list the verdict is UNKNOWN 'No tags
\* found or repository not accessible' with gap, current and recommended null,
\* whether or not the image reference carries an explicit tag.
C7_NoTagsIsUnknown ==
    FetchedNothing
    => /\ Verdict.status = "UNKNOWN"
       /\ Verdict.message = "No tags found or repository not accessible"
       /\ Verdict.gap = None
       /\ Verdict.current = None
       /\ Verdict.recommended = None

\* an image without explicit tag whose fetch returned nothing: UNKNOWN
C7_Witness ==
    /\ FetchedNothing
    /\ ExplicitTagOf(args.image_name) = None
    /\ Verdict.status = "UNKNOWN"

\* C8: for a supported image reference without explicit tag whose tag fetch
\* returned at least one tag the verdict is WARNING with a null gap and the
\* message that no explicit tag was specified; level detection, LTS check and
\* gap computation are not performed.
C8_UntaggedIsWarning ==
    (/\ Returned
     /\ Supported
     /\ ExplicitTagOf(args.image_name) = None
     /\ local.tags # <<>>)
    => /\ Verdict.status = "WARNING"
       /\ Verdict.gap = None
       /\ Verdict.message = "No explicit tag specified (using 'latest')"
       /\ invoked \cap {"detect_version_level", "check_lts_version",
                        "calculate_version_gap"} = {}

-----------------------------------------------------------------------------
(* Inputs of check_lts_version: tags written from their major version *)

MaxLtsMajor == 21

LtsMajors == 15..MaxLtsMajor

latest == <<"l", "a", "t", "e", "s", "t">>

\* a tag argument with the leading integer it was written from (None: none)
LtsTags ==
    { [major |-> None, tag |-> None], [major |-> None, tag |-> Some(latest)] }
    \cup { [major |-> Some(n), tag |-> Some(TagText(<<n>>, p, x))] :
             n \in LtsMajors, p \in {<<>>, V}, x \in {<<>>, Alpine} }
    \cup { [major |-> Some(n), tag |-> Some(TagText(<<n, 9>>, <<>>, <<>>))] :
             n \in LtsMajors }

LtsRules ==
    { NoRules,
      [python |-> [lts_versions |-> {16, 18, 20}]],
      [node |-> [step_by |-> 2]],
      [node |-> [lts_versions |-> {16, 18, 20}]],
      [node |-> [lts_versions |-> {18}, level |-> 1]] }

LtsCalls ==
    { [fn |-> "check_lts_version",
       current_major |-> c.major, recommended_major |-> r.major,
       current_tag |-> c.tag, recommended_tag |-> r.tag,
       custom_rules |-> cr, image_base |-> node] :
      c \in LtsTags, r \in LtsTags, cr \in LtsRules }

InitLts ==
    /\ phase = "called"
    /\ args \in LtsCalls
    /\ ret = None
    /\ NotAnalyzing
    /\ NoObjects

\* the call of check_lts_version returns
LtsReturns ==
    /\ phase = "called"
    /\ args.fn = "check_lts_version"
    /\ ret' = Some(check_lts_version(args.current_tag, args.recommended_tag,
                                     args.custom_rules, args.image_base))
    /\ phase' = "returned"
    /\ UNCHANGED <<args, locals, objects>>

NextLts == LtsReturns

SpecLts == InitLts /\ [][NextLts]_vars

LtsReturned == phase = "returned" /\ args.fn = "check_lts_version"

\* the rule of the call's image has lts_versions
LtsConfigured ==
    /\ args.custom_rules # NoRules
    /\ Join(args.image_base) \in DOMAIN args.custom_rules
    /\ "lts_versions" \in DOMAIN args.custom_rules[Join(args.image_base)]

ConfiguredLts == args.custom_rules[Join(args.image_base)].lts_versions

\* C15: check_lts_version returns true when there are no rules, no rule for
\* the image, no lts_versions in the rule, or the current tag's leading
\* integer is not in lts_versions, whatever the recommended tag.
C15_NoPolicyIsValid ==
    (/\ LtsReturned
     /\ \/ ~LtsConfigured
        \/ /\ args.current_major # None
           /\ args.current_major[1] \notin ConfiguredLts)
    => ret = Some(TRUE)

\* a non-LTS current version with a non-LTS recommended version under a policy
C15_Witness ==
    /\ LtsReturned /\ LtsConfigured
    /\ args.current_major # None /\ args.current_major[1] \notin ConfiguredLts
    /\ args.recommended_major # None
    /\ args.recommended_major[1] \notin ConfiguredLts
    /\ args.recommended_major[1] = args.current_major[1] + 2
    /\ ret = Some(TRUE)

\* a rule for the image without lts_versions
C15_WitnessNoKey ==
    /\ LtsReturned /\ ~LtsConfigured /\ args.custom_rules # NoRules
    /\ Join(args.image_base) \in DOMAIN args.custom_rules
    /\ args.current_major = Some(16) /\ args.recommended_major = Some(17)
    /\ ret = Some(TRUE)

\* C16: with an LTS current version the result is true exactly when the
\* recommended tag's leading integer is an LTS version or is greater than the
\* smallest configured LTS version above current.
C16_LtsUpgradeRule ==
    (/\ LtsReturned /\ LtsConfigured
     /\ args.current_major # None /\ args.current_major[1] \in ConfiguredLts
     /\ args.recommended_major # None)
    => LET cur == args.current_major[1]
           rec == args.recommended_major[1]
           above == {l \in ConfiguredLts : l > cur}
       IN  ret = Some(\/ rec \in ConfiguredLts
                      \/ /\ above # {}
                         /\ \A l \in above : (\A m \in above : l <= m) => rec > l)

\* LTS 16 to non-LTS 17 is refused
C16_Witness ==
    /\ LtsReturned /\ LtsConfigured
    /\ args.current_major = Some(16) /\ args.recommended_major = Some(17)
    /\ 16 \in ConfiguredLts /\ 18 \in ConfiguredLts
    /\ ret = Some(FALSE)

\* LTS 16 to non-LTS 19, past the next LTS 18, is accepted
C16_WitnessPastNextLts ==
    /\ LtsReturned /\ LtsConfigured
    /\ args.current_major = Some(16) /\ args.recommended_major = Some(19)
    /\ 18 \in ConfiguredLts /\ 19 \notin ConfiguredLts
    /\ ret = Some(TRUE)

\* a non-LTS version above the highest LTS version is refused
C16_WitnessNoNextLts ==
    /\ LtsReturned /\ LtsConfigured
    /\ args.current_major # None /\ args.current_major[1] \in ConfiguredLts
    /\ \A l \in ConfiguredLts : l <= args.current_major[1]
    /\ args.recommended_major # None
    /\ args.recommended_major[1] > args.current_major[1]
    /\ ret = Some(FALSE)

-----------------------------------------------------------------------------
(* Inputs of detect_version_level *)

MaxLevelTags == 3

debian == <<"d", "e", "b", "i", "a", "n">>
ubuntu == <<"u", "b", "u", "n", "t", "u">>
centos == <<"c", "e", "n", "t", "o", "s">>
mysql == <<"m", "y", "s", "q", "l">>
alpine == <<"a", "l", "p", "i", "n", "e">>
nginx == <<"n", "g", "i", "n", "x">>
php == <<"p", "h", "p">>
golang == <<"g", "o", "l", "a", "n", "g">>
postgres == <<"p", "o", "s", "t", "g", "r", "e", "s">>
mariadb == <<"m", "a", "r", "i", "a", "d", "b">>
mongo == <<"m", "o", "n", "g", "o">>
redis == <<"r", "e", "d", "i", "s">>
tool == <<"t", "o", "o", "l">>
library == <<"l", "i", "b", "r", "a", "r", "y">>
acme == <<"a", "c", "m", "e">>

\* the image families of the built-in table, by the level the table gives
FamiliesOfLevel1 == {debian, ubuntu, centos, node, mysql}
FamiliesOfLevel2 == {alpine, nginx, python, php, golang, postgres, mariadb, mongo, redis}

\* the tags of a registry answer: version tags with the components they were
\* written from, and tags that are no version (nums None)
LevelTagUniverse ==
    { [nums |-> Some(n), tag |-> TagText(n, <<>>, <<>>)] :
        n \in { <<1>>, <<2>>, <<1, 0>>, <<1, 1>>, <<2, 1>>,
                <<1, 0, 0>>, <<1, 0, 1>>, <<1, 1, 0>>, <<1, 0, 0, 1>> } }
    \cup { [nums |-> Some(<<2>>), tag |-> TagText(<<2>>, V, <<>>)],
           [nums |-> Some(<<1, 1>>), tag |-> TagText(<<1, 1>>, <<>>, Alpine)],
           [nums |-> None, tag |-> latest] }

\* the tag lists: every sequence of at most MaxLevelTags tags
LevelTagLists ==
    UNION { [1..n -> LevelTagUniverse] : n \in 0..MaxLevelTags }

\* calls for a family of the built-in table, under its bare and its
\* namespaced name, with and without a rule for the family
FamilyCalls ==
    { [fn |-> "detect_version_level",
       family |-> f, base_image_name |-> p \o f,
       tag_list |-> l, custom_rules |-> cr] :
      f \in FamiliesOfLevel1 \cup FamiliesOfLevel2,
      p \in {<<>>, library \o <<"/">>},
      l \in {l \in LevelTagLists : Len(l) <= 1},
      cr \in { NoRules,
                [debian |-> [level |-> 2], alpine |-> [level |-> 1],
                 node |-> [level |-> 3], python |-> [lts_versions |-> {3}]] } }

\* calls for a family that is not in the table
UnknownFamilyCalls ==
    { [fn |-> "detect_version_level",
       family |-> tool, base_image_name |-> acme \o <<"/">> \o tool,
       tag_list |-> l, custom_rules |-> cr] :
      l \in LevelTagLists,
      cr \in { NoRules, [tool |-> [level |-> 3]], [acme |-> [level |-> 3]] } }

LevelCalls == FamilyCalls \cup UnknownFamilyCalls

\* the tag texts of a tag list
tag_texts(l) == [k \in 1..Len(l) |-> l[k].tag]

InitLevel ==
    /\ phase = "called"
    /\ args \in LevelCalls
    /\ ret = None
    /\ NotAnalyzing
    /\ NoObjects

\* the call of detect_version_level returns
LevelReturns ==
    /\ phase = "called"
    /\ args.fn = "detect_version_level"
    /\ ret' = Some(detect_version_level(tag_texts(args.tag_list),
                                        args.base_image_name, args.custom_rules))
    /\ phase' = "returned"
    /\ UNCHANGED <<args, locals, objects>>

NextLevel == LevelReturns

SpecLevel == InitLevel /\ [][NextLevel]_vars

LevelReturned == phase = "returned" /\ args.fn = "detect_version_level"

\* the custom rules have a level for the last path segment of the image name
HasLevelRule ==
    /\ args.custom_rules # NoRules
    /\ Join(args.family) \in DOMAIN args.custom_rules
    /\ "level" \in DOMAIN args.custom_rules[Join(args.family)]

RuleLevel == args.custom_rules[Join(args.family)].level

InTable == args.family \in FamiliesOfLevel1 \cup FamiliesOfLevel2

\* C17: a custom rule level for the last path segment of the image name is
\* returned unchanged, also for a family of the built-in table; without one a
\* family of the table gets the table's level whatever the tags are.
C17_RuleThenTable ==
    LevelReturned
    => /\ HasLevelRule => ret = Some(RuleLevel)
       /\ (~HasLevelRule /\ args.family \in FamiliesOfLevel1) => ret = Some(1)
       /\ (~HasLevelRule /\ args.family \in FamiliesOfLevel2) => ret = Some(2)

\* a custom level overriding the table's level of a namespaced family
C17_Witness ==
    /\ LevelReturned /\ HasLevelRule
    /\ args.family \in FamiliesOfLevel1
    /\ args.base_image_name # args.family
    /\ RuleLevel # 1
    /\ ret = Some(RuleLevel)

\* the table's level for a family whose rule has no level
C17_WitnessTable ==
    /\ LevelReturned /\ ~HasLevelRule
    /\ Join(args.family) \in DOMAIN args.custom_rules
    /\ args.family \in FamiliesOfLevel2
    /\ args.tag_list # <<>>
    /\ ret = Some(2)

\* the number of valid version tags of the call
VersionTagCount ==
    Cardinality({k \in 1..Len(args.tag_list) : args.tag_list[k].nums # None})

\* the first three components, padded with 0, of the valid version tags
VersionTriples ==
    { [j \in 1..3 |-> IF j <= Len(args.tag_list[k].nums[1])
                      THEN args.tag_list[k].nums[1][j] ELSE 0] :
      k \in {k \in 1..Len(args.tag_list) : args.tag_list[k].nums # None} }

TripleLess(a, b) ==
    \E j \in 1..3 : a[j] < b[j] /\ \A m \in 1..(j - 1) : a[m] = b[m]

\* the pairs of versions adjacent in sorted order that differ
AdjacentPairs ==
    { p \in VersionTriples \X VersionTriples :
        /\ TripleLess(p[1], p[2])
        /\ ~\E c \in VersionTriples : TripleLess(p[1], c) /\ TripleLess(c, p[2]) }

\* the number of adjacent pairs whose lowest differing segment is j (1..3)
Tally(j) ==
    Cardinality({ p \in AdjacentPairs :
                    p[1][j] # p[2][j] /\ \A m \in 1..(j - 1) : p[1][m] = p[2][m] })

\* the segments that are the first difference in the largest number of pairs
MostChanging == { j \in 1..3 : Tally(j) > 0 /\ \A m \in 1..3 : Tally(m) <= Tally(j) }

\* the statistical analysis decides: unknown family, no custom level, at
\* least two valid version tags and an adjacent pair that differs
Statistical ==
    /\ LevelReturned /\ ~HasLevelRule /\ ~InTable
    /\ VersionTagCount >= 2
    /\ AdjacentPairs # {}

C18_WitnessNoVersions ==
    /\ LevelReturned /\ ~HasLevelRule /\ ~InTable
    /\ args.tag_list # <<>> /\ VersionTagCount = 0
    /\ ret = Some(1)

\* C19 as stated: level 3 is returned only when a custom rule for the image
\* sets level = 3.
C19_PatchOnlyByRule ==
    (LevelReturned /\ ret = Some(3)) => (HasLevelRule /\ RuleLevel = 3)

\* C19, amended: level 3 is returned only when a custom rule for the image
\* sets level = 3 or when the statistical analysis finds the patch segment the
\* first difference in the largest number of adjacent pairs; the built-in
\* table, the dot-count fallback and the default return 1 or 2.
C19_PatchByRuleOrStatistics ==
    LevelReturned
    => /\ ret # None /\ ret[1] \in {1, 2, 3}
       /\ ret = Some(3) => \/ HasLevelRule /\ RuleLevel = 3
                           \/ Statistical /\ 3 \in MostChanging
       /\ (~HasLevelRule /\ ~Statistical) => ret[1] \in {1, 2}

\* level 3 inferred from two tags that differ in the patch segment only
C19_Witness ==
    /\ Statistical /\ MostChanging = {3}
    /\ args.custom_rules = NoRules
    /\ ret = Some(3)

\* three-part tags decided by the dot-count fallback
C19_WitnessDotCount ==
    /\ LevelReturned /\ ~HasLevelRule /\ ~InTable /\ ~Statistical
    /\ VersionTagCount >= 1
    /\ \A k \in 1..Len(args.tag_list) :
          args.tag_list[k].nums # None /\ Len(args.tag_list[k].nums[1]) = 3
    /\ ret = Some(2)

-----------------------------------------------------------------------------
(* Inputs of is_valid_version_tag: tags written from their parts *)

MaxGroups == 5
MaxGroupLen == 3
MaxLongGroup == 9

\* a group of n digits
DigitGroup(n) == [k \in 1..n |-> Digits[(k % 10) + 1]]

\* the digit counts of the dot-separated groups of a tag
GroupLengths ==
    UNION { [1..n -> 1..MaxGroupLen] : n \in 1..MaxGroups }
    \cup { <<n>> : n \in 1..MaxLongGroup }
    \cup { <<4, 4>>, <<4, 5>>, <<2, 2, 2, 2>> }

RECURSIVE DottedGroups(_)
DottedGroups(lengths) ==
    IF Len(lengths) = 1 THEN DigitGroup(lengths[1])
    ELSE DigitGroup(lengths[1]) \o <<".">> \o DottedGroups(Tail(lengths))

\* the texts after a '-', with the digit runs and digits they hold and whether
\* they are a non-empty text of lowercase letters and digits
Suffixes ==
    { [text |-> <<"a", "l", "p", "i", "n", "e">>, runs |-> 0, digits |-> 0, lower |-> TRUE],
      [text |-> <<"a", "1">>, runs |-> 1, digits |-> 1, lower |-> TRUE],
      [text |-> <<"a", "1", "b", "2">>, runs |-> 2, digits |-> 2, lower |-> TRUE],
      [text |-> <<"r", "c", "1", "2", "3", "4", "5">>, runs |-> 1, digits |-> 5, lower |-> TRUE],
      [text |-> <<>>, runs |-> 0, digits |-> 0, lower |-> FALSE],
      [text |-> <<"A", "l", "p", "i", "n", "e">>, runs |-> 0, digits |-> 0, lower |-> FALSE],
      [text |-> <<"a", "l", "p", "h", "a", ".", "b", "e", "t", "a", ".", "g", "a", "m", "m", "a">>, runs |-> 0, digits |-> 0, lower |-> FALSE],
      [text |-> <<"a", "-", "b">>, runs |-> 0, digits |-> 0, lower |-> FALSE],
      [text |-> <<"a", "_", "b">>, runs |-> 0, digits |-> 0, lower |-> FALSE] }

\* texts that are not an optional 'v', dotted digit groups and an optional
\* '-' suffix
NotVersionShaped ==
    { <<"l", "a", "t", "e", "s", "t">>,
      <<"a", "l", "p", "i", "n", "e">>,
      <<>>,
      <<"v">>,
      <<"1", ".", ".", "2">>,
      <<"1", ".">>,
      <<".", "1">>,
      <<"V", "1">>,
      <<"v", "v", "1">>,
      <<"1", " ", "0">>,
      <<"-", "a">>,
      <<"1", "v">> }

\* a tag with the parts it was written from; groups <<>> marks a text that
\* has no such parts
ValidTagCalls ==
    { [fn |-> "is_valid_version_tag", v |-> v, groups |-> g, suffix |-> x,
       tag |-> (IF v THEN <<"v">> ELSE <<>>) \o DottedGroups(g)
               \o (IF x = None THEN <<>> ELSE <<"-">> \o x[1].text)] :
      v \in BOOLEAN, g \in GroupLengths,
      x \in {None} \cup {Some(f) : f \in Suffixes} }
    \cup
    { [fn |-> "is_valid_version_tag", v |-> FALSE, groups |-> <<>>,
       suffix |-> None, tag |-> t] : t \in NotVersionShaped }

InitValid ==
    /\ phase = "called"
    /\ args \in ValidTagCalls
    /\ ret = None
    /\ NotAnalyzing
    /\ NoObjects

\* the call of is_valid_version_tag returns
ValidReturns ==
    /\ phase = "called"
    /\ args.fn = "is_valid_version_tag"
    /\ ret' = Some(is_valid_version_tag(args.tag))
    /\ phase' = "returned"
    /\ UNCHANGED <<args, locals, objects>>

NextValid == ValidReturns

SpecValid == InitValid /\ [][NextValid]_vars

ValidReturned == phase = "returned" /\ args.fn = "is_valid_version_tag"

RECURSIVE Sum(_)
Sum(list) == IF list = <<>> THEN 0 ELSE Head(list) + Sum(Tail(list))

\* optional 'v', 1 to 4 dotted integer groups, optional single '-' suffix of
\* lowercase letters and digits
HasVersionForm ==
    /\ Len(args.groups) \in 1..4
    /\ args.suffix # None => args.suffix[1].lower

\* a pure digit string of length >= 6
IsLongNumber ==
    /\ ~args.v /\ args.suffix = None
    /\ Len(args.groups) = 1 /\ args.groups[1] >= 6

\* the digit runs of the whole tag, those of the suffix included
DigitRunCount ==
    Len(args.groups) + (IF args.suffix = None THEN 0 ELSE args.suffix[1].runs)

DigitCount ==
    Sum(args.groups) + (IF args.suffix = None THEN 0 ELSE args.suffix[1].digits)

\* C20: is_valid_version_tag is true exactly for a tag of the version form
\* that is not a pure digit string of length >= 6 and holds at most 4 digit
\* runs and at most 8 digits, the suffix counted.
C20_ValidTagForm ==
    ValidReturned
    => ret = Some(/\ HasVersionForm
                  /\ ~IsLongNumber
                  /\ DigitRunCount <= 4
                  /\ DigitCount <= 8)

\* a tag of the version form refused only for the digit runs of its suffix
C20_Witness ==
    /\ ValidReturned
    /\ HasVersionForm /\ ~IsLongNumber /\ DigitCount <= 8
    /\ Len(args.groups) <= 4 /\ DigitRunCount > 4
    /\ ret = Some(FALSE)

\* a 'v' tag with four groups, eight digits and a suffix is accepted
C20_WitnessAccepted ==
    /\ ValidReturned
    /\ args.v /\ Len(args.groups) = 4 /\ DigitCount = 8
    /\ args.suffix # None
    /\ ret = Some(TRUE)

\* a tag of the version form refused only for its number of digits
C20_WitnessTooManyDigits ==
    /\ ValidReturned
    /\ HasVersionForm /\ ~IsLongNumber /\ DigitRunCount <= 4
    /\ DigitCount > 8
    /\ ret = Some(FALSE)

-----------------------------------------------------------------------------
(* Inputs of find_recommended_tag: tags written from their parts *)

MaxListedTags == 3

stable == <<"s", "t", "a", "b", "l", "e">>
alpine_rc1 == <<"a", "l", "p", "i", "n", "e", "-", "r", "c", "1">>
alpine3 == <<"a", "l", "p", "i", "n", "e", "3">>
rc1 == <<"r", "c", "1">>
date_tag == <<"2", "0", "2", "2", "0", "1", "0", "1">>

\* a version tag: the components and prefix of its base version, its variant
\* (None: none), whether it holds a pre-release marker
VersionTag(nums, prefix, variant, pre) ==
    [tag |-> TagText(nums, prefix, IF variant = None THEN <<>> ELSE <<"-">> \o variant[1]),
     base |-> TagText(nums, prefix, <<>>),
     nums |-> Some(nums), variant |-> variant, pre |-> pre]

\* a tag without a valid base version
OtherTag(text, pre) ==
    [tag |-> text, base |-> <<>>, nums |-> None, variant |-> None, pre |-> pre]

ListedTagUniverse ==
    { VersionTag(<<1, 0>>, <<>>, None, FALSE),
      VersionTag(<<2, 0>>, <<>>, None, FALSE),
      VersionTag(<<2>>, <<>>, None, FALSE),
      VersionTag(<<2, 0>>, V, None, FALSE),
      VersionTag(<<2, 0>>, <<>>, Some(Tail(Alpine)), FALSE),
      VersionTag(<<2, 0>>, <<>>, Some(Tail(Slim)), FALSE),
      VersionTag(<<2, 0>>, <<>>, Some(alpine3), FALSE),
      VersionTag(<<2, 0>>, <<>>, Some(alpine_rc1), TRUE),
      VersionTag(<<3, 0>>, <<>>, Some(rc1), TRUE),
      OtherTag(latest, TRUE),
      OtherTag(stable, FALSE),
      OtherTag(date_tag, FALSE) }

ListedTagLists == UNION { [1..n -> ListedTagUniverse] : n \in 0..MaxListedTags }

CurrentTags ==
    { [tag |-> None, variant |-> None],
      [tag |-> Some(TagText(<<1, 0>>, <<>>, <<>>)), variant |-> None],
      [tag |-> Some(TagText(<<1, 0>>, <<>>, Alpine)), variant |-> Some(Tail(Alpine))] }

RecommendCalls ==
    { [fn |-> "find_recommended_tag", tag_list |-> l,
       current_tag |-> c.tag, current_variant |-> c.variant] :
      l \in ListedTagLists, c \in CurrentTags }

InitRecommend ==
    /\ phase = "called"
    /\ args \in RecommendCalls
    /\ ret = None
    /\ NotAnalyzing
    /\ NoObjects

\* the call of find_recommended_tag returns
RecommendReturns ==
    /\ phase = "called"
    /\ args.fn = "find_recommended_tag"
    /\ ret' = Some(find_recommended_tag(tag_texts(args.tag_list), args.current_tag))
    /\ phase' = "returned"
    /\ UNCHANGED <<args, locals, objects>>

NextRecommend == RecommendReturns

SpecRecommend == InitRecommend /\ [][NextRecommend]_vars

RecommendReturned == phase = "returned" /\ args.fn = "find_recommended_tag"

\* the returned tag, None when null was returned
Recommended == ret[1]

\* the listed tags with the given text
ListedAs(text) == {t \in ListedTagUniverse : t.tag = text}

\* C21: the returned tag never holds a pre-release marker.
C21_NeverPreRelease ==
    (RecommendReturned /\ Recommended # None)
    => \A t \in ListedAs(Recommended[1]) : ~t.pre

\* the positions of the non-pre-release tags with a valid base version
Candidates ==
    {k \in 1..Len(args.tag_list) :
        args.tag_list[k].nums # None /\ ~args.tag_list[k].pre}

\* the base version of a tag as three components, padded with 0
BaseTriple(t) == [j \in 1..3 |-> IF j <= Len(t.nums[1]) THEN t.nums[1][j] ELSE 0]

\* no candidate has a greater base version than t
IsNewest(t) ==
    \A k \in Candidates : ~TripleLess(BaseTriple(t), BaseTriple(args.tag_list[k]))

\* C22: with a candidate in the list the returned tag is an element of the
\* list whose base version is the greatest of the candidates' base versions;
\* for an empty list null is returned.
C22_NewestBaseVersion ==
    RecommendReturned
    => /\ Candidates # {}
          => /\ Recommended # None
             /\ \E k \in 1..Len(args.tag_list) :
                   /\ args.tag_list[k].tag = Recommended[1]
                   /\ args.tag_list[k].nums # None
                   /\ IsNewest(args.tag_list[k])
       /\ args.tag_list = <<>> => Recommended = None

\* pre-release, date and older tags around the newest version
C22_Witness ==
    /\ RecommendReturned
    /\ Len(args.tag_list) = 3
    /\ \E k \in 1..3 : args.tag_list[k].pre /\ args.tag_list[k].nums = Some(<<3, 0>>)
    /\ \E k \in 1..3 : args.tag_list[k].tag = date_tag
    /\ Recommended = Some(TagText(<<2, 0>>, V, <<>>))

\* the positions of the newest group for the base version text b
GroupOf(b) == {k \in Candidates : args.tag_list[k].base = b}

\* the element of list at the least position of a non-empty set of positions
FirstOf(positions) ==
    args.tag_list[CHOOSE k \in positions : \A m \in positions : k <= m].tag

\* the positions of the group b whose variant is the current tag's variant
SameVariant(b) ==
    {k \in GroupOf(b) : args.tag_list[k].variant = args.current_variant}

\* '{newest_base_version}-{variant}'
VariantSearch(b) == b \o <<"-">> \o args.current_variant[1]

\* the bare tag of the group b if present, else the first tag of the group
BareOrFirst(b) ==
    IF \E k \in GroupOf(b) : args.tag_list[k].tag = b THEN b ELSE FirstOf(GroupOf(b))

\* the base version texts of the candidates with the greatest base version
NewestBases ==
    {args.tag_list[k].base : k \in {k \in Candidates : IsNewest(args.tag_list[k])}}

\* C23 as stated: same variant within the newest group, else the tag
\* '{newest_base_version}-{variant}' of the full list, else the bare tag of the
\* newest group, else the first tag of the group.
C23_VariantPreferenceExact ==
    (RecommendReturned /\ Candidates # {})
    => \E b \in NewestBases :
         Recommended =
           Some(IF args.current_variant # None /\ SameVariant(b) # {}
                THEN FirstOf(SameVariant(b))
                ELSE IF /\ args.current_variant # None
                        /\ \E k \in 1..Len(args.tag_list) :
                              args.tag_list[k].tag = VariantSearch(b)
                THEN VariantSearch(b)
                ELSE BareOrFirst(b))

\* the positions of the full list whose tag starts with
\* '{newest_base_version}-{variant}'
StartingWithVariant(b) ==
    {k \in 1..Len(args.tag_list) : StartsWith(args.tag_list[k].tag, VariantSearch(b))}

\* C23, amended: same variant within the newest group, else the first tag of
\* the full list that starts with '{newest_base_version}-{variant}', else the
\* bare tag of the newest group, else the first tag of the group.
C23_VariantPreferencePrefix ==
    (RecommendReturned /\ Candidates # {})
    => \E b \in NewestBases :
         Recommended =
           Some(IF args.current_variant # None /\ SameVariant(b) # {}
                THEN FirstOf(SameVariant(b))
                ELSE IF args.current_variant # None /\ StartingWithVariant(b) # {}
                THEN FirstOf(StartingWithVariant(b))
                ELSE BareOrFirst(b))

\* a longer variant found by the search of the full list although the bare
\* tag of the newest version is listed
C23_Witness ==
    /\ RecommendReturned
    /\ args.current_variant = Some(Tail(Alpine))
    /\ \E k \in 1..Len(args.tag_list) : args.tag_list[k].tag = TagText(<<2, 0>>, <<>>, <<>>)
    /\ \A k \in 1..Len(args.tag_list) : args.tag_list[k].variant # Some(Tail(Alpine))
    /\ Recommended = Some(TagText(<<2, 0>>, <<>>, <<"-">> \o alpine3))

\* the same variant within the newest group, listed after the bare tag
C23_WitnessSameVariant ==
    /\ RecommendReturned
    /\ args.current_variant = Some(Tail(Alpine))
    /\ Len(args.tag_list) >= 2
    /\ args.tag_list[1].tag = TagText(<<2, 0>>, <<>>, <<>>)
    /\ Recommended = Some(TagText(<<2, 0>>, <<>>, Alpine))

\* the first tag of a newest group without bare tag
C23_WitnessFirstOfGroup ==
    /\ RecommendReturned
    /\ args.current_variant = None
    /\ Len(args.tag_list) >= 2
    /\ \A k \in 1..Len(args.tag_list) : args.tag_list[k].variant # None
    /\ Recommended = Some(TagText(<<2, 0>>, <<>>, Slim))

\* C24: for a non-empty list without any numeric version the result is
\* 'stable' if listed, else the first tag that is not 'latest', else the first
\* tag; null is returned only for an empty list.
C24_FallbackWithoutVersions ==
    RecommendReturned
    => /\ (args.tag_list # <<>>
           /\ \A k \in 1..Len(args.tag_list) : args.tag_list[k].nums = None)
          => LET texts == tag_texts(args.tag_list)
                 others == {k \in 1..Len(texts) : texts[k] # latest}
             IN  Recommended =
                   Some(IF \E k \in 1..Len(texts) : texts[k] = stable THEN stable
                        ELSE IF others # {} THEN FirstOf(others)
                        ELSE texts[1])
       /\ Recommended = None => args.tag_list = <<>>

RECURSIVE Reorderings(_)
Reorderings(list) ==
    IF list = <<>> THEN {<<>>}
    ELSE UNION { {<<list[k]>> \o p :
                    p \in Reorderings(SubSeq(list, 1, k - 1)
                                       \o SubSeq(list, k + 1, Len(list)))} :
                 k \in 1..Len(list) }

\* C25: every permutation of the tag list gives the same recommended tag.
C25_OrderIndependent ==
    RecommendReturned
    => \A p \in Reorderings(tag_texts(args.tag_list)) :
          find_recommended_tag(p, args.current_tag) = Recommended

-----------------------------------------------------------------------------
(* The image reference and the verdict of analyze_image_tags *)

\* the image name has been split into repository and tag
Parsed == args.fn = "analyze_image_tags" /\ local.base_image # <<>>

\* C26: the current tag is the text after the last ':' that is not part of a
\* registry host:port, and absent when there is none.
C26_TagAfterLastColon ==
    Parsed => local.current_tag = ExplicitTagOf(args.image_name)

\* the rule of the analysed image has lts_versions
LtsRuleExists ==
    HasRule(args.custom_rules, last_segment(local.base_image), "lts_versions")

\* C30: the status is one of the four; OUTDATED comes with a positive gap
\* that reaches the threshold and with current and recommended; UNKNOWN comes
\* with a null gap; WARNING with a null gap only for an image without explicit
\* tag; WARNING with a gap only when an lts_versions rule exists and the LTS
\* check failed.
C30_VerdictConsistent ==
    Returned
    => /\ Verdict.status \in {"UP-TO-DATE", "OUTDATED", "WARNING", "UNKNOWN"}
       /\ Verdict.status = "OUTDATED"
          => /\ Verdict.gap # None
             /\ Verdict.gap[1] > 0
             /\ Verdict.gap[1] >= args.threshold
             /\ Verdict.current # None
             /\ Verdict.recommended # None
       /\ Verdict.status = "UNKNOWN" => Verdict.gap = None
       /\ (Verdict.status = "WARNING" /\ Verdict.gap = None)
          => ExplicitTagOf(args.image_name) = None
       /\ (Verdict.status = "WARNING" /\ Verdict.gap # None)
          => (LtsRuleExists /\ ~local.is_valid_upgrade)

\* an OUTDATED verdict whose gap is above the threshold
C30_Witness ==
    /\ Returned
    /\ Verdict.status = "OUTDATED"
    /\ Verdict.gap # None /\ Verdict.gap[1] > args.threshold

\* a WARNING verdict with a gap
C30_WitnessLtsWarning ==
    /\ Returned
    /\ Verdict.status = "WARNING" /\ Verdict.gap # None
    /\ LtsRuleExists

\* a verdict with a gap below the threshold
C30_WitnessWithinThreshold ==
    /\ Returned
    /\ Verdict.status = "UP-TO-DATE"
    /\ Verdict.gap # None /\ Verdict.gap[1] > 0 /\ Verdict.gap[1] < args.threshold

-----------------------------------------------------------------------------
(* ImageIgnoreManager and parse_ignore_options (image_ignore.py).  A      *)
(* pattern is written from its parts: the whitespace before it, its core  *)
(* and the whitespace after it.                                           *)

MaxPatterns == 3     \* the manager holds at most MaxPatterns patterns
MaxSupplied == 2     \* a list or a file supplies at most MaxSupplied entries
MaxOptions  == 2     \* the command line carries at most MaxOptions options

Whitespace == {" ", "\t", "\n", "\r"}

\* s.lstrip()
RECURSIVE lstrip(_)
lstrip(s) == IF s # <<>> /\ Head(s) \in Whitespace THEN lstrip(Tail(s)) ELSE s

\* s.rstrip()
RECURSIVE rstrip(_)
rstrip(s) == IF s # <<>> /\ s[Len(s)] \in Whitespace THEN rstrip(SubSeq(s, 1, Len(s) - 1)) ELSE s

\* s.strip()
strip(s) == rstrip(lstrip(s))

\* self.patterns after add_pattern(pattern)
add_pattern(list, pattern) ==
    IF pattern # <<>> /\ strip(pattern) # <<>>
    THEN Append(list, strip(pattern))
    ELSE list

\* self.patterns after add_patterns_from_list(given)
RECURSIVE add_patterns_from_list(_, _)
add_patterns_from_list(list, given) ==
    IF given = <<>> THEN list
    ELSE add_patterns_from_list(add_pattern(list, Head(given)), Tail(given))

\* the "for line in f" loop over the lines the read delivers
RECURSIVE load_lines(_, _)
load_lines(list, lines) ==
    IF lines = <<>> THEN list
    ELSE LET line == strip(Head(lines)) IN
         load_lines(IF line = <<>> \/ StartsWith(line, <<"#">>)
                    THEN list
                    ELSE add_pattern(list, line),
                    Tail(lines))

\* self.patterns after load_patterns_from_file and its return value; the
\* read delivers file.readable lines and raises if there are more
load_patterns_from_file(list, file) ==
    IF ~file.isfile
    THEN [patterns |-> list, result |-> FALSE]
    ELSE [patterns |-> load_lines(list, SubSeq(file.lines, 1, file.readable)),
          result   |-> file.readable = Len(file.lines)]

\* get_patterns handing out self.patterns itself
get_patterns_shared(list) == [list |-> list, shared |-> TRUE]

\* get_patterns: self.patterns.copy(), a list of its own
get_patterns(list) == [list |-> list, shared |-> FALSE]

IGNORE == <<"-", "-", "i", "g", "n", "o", "r", "e">>

IGNORE_IMAGES == IGNORE \o <<"-", "i", "m", "a", "g", "e", "s">>

\* the "while i < len(args)" loop of parse_ignore_options from position i
RECURSIVE ignore_patterns_from(_, _)
ignore_patterns_from(argv, i) ==
    IF i > Len(argv) THEN <<>>
    ELSE IF argv[i] = IGNORE
         THEN IF i + 1 <= Len(argv) /\ ~StartsWith(argv[i + 1], <<"-", "-">>)
              THEN <<argv[i + 1]>> \o ignore_patterns_from(argv, i + 2)
              ELSE ignore_patterns_from(argv, i + 1)
         ELSE ignore_patterns_from(argv, i + 1)

\* the patterns of the manager parse_ignore_options returns; file_at gives
\* the file at a path
parse_ignore_options(argv, file_at) ==
    LET cli == add_patterns_from_list(<<>>, ignore_patterns_from(argv, 1))
        idx == FirstIndex(argv, IGNORE_IMAGES)
    IN  IF idx # 0 /\ idx + 1 <= Len(argv)
                   /\ ~StartsWith(argv[idx + 1], <<"-", "-">>)
        THEN load_patterns_from_file(cli, file_at[argv[idx + 1]]).patterns
        ELSE cli

-----------------------------------------------------------------------------
(* The calls made on an ImageIgnoreManager *)

PatternParts ==
    { [before |-> <<>>,    core |-> <<"a", " ", "b">>, after |-> <<>>],
      [before |-> <<" ">>, core |-> <<"a", " ", "b">>, after |-> <<"\t">>],
      [before |-> <<>>,    core |-> <<>>,              after |-> <<>>],
      [before |-> <<" ">>, core |-> <<>>,              after |-> <<>>],
      [before |-> <<>>,    core |-> <<"#", "c">>,      after |-> <<>>],
      [before |-> <<" ">>, core |-> <<"#", "c">>,      after |-> <<" ">>] }

PartLists == UNION {[1..n -> PatternParts] : n \in 0..MaxSupplied}

\* the pattern as the caller passes it
PatternText(part) == part.before \o part.core \o part.after

\* the line of an ignore file
LineText(part) == PatternText(part) \o <<"\n">>

PatternTexts(parts) == [k \in 1..Len(parts) |-> PatternText(parts[k])]

\* a path that is no file, or a file of lines of which the read delivers
\* the first `readable` before it fails (all of them: it does not fail)
Files ==
    {[isfile |-> FALSE, parts |-> <<>>, lines |-> <<>>, readable |-> 0]}
    \cup UNION {{[isfile |-> TRUE, parts |-> parts,
                  lines |-> [k \in 1..Len(parts) |-> LineText(parts[k])],
                  readable |-> n] : n \in 0..Len(parts)} : parts \in PartLists}

IgnoreFilePath == <<"f">>

Options ==
    {[opt |-> "ignore", part |-> part] : part \in PatternParts}
    \cup {[opt |-> "ignore_without_pattern"],
          [opt |-> "ignore_images"],
          [opt |-> "ignore_images_without_path"]}

FromFile(option) == option.opt \in {"ignore_images", "ignore_images_without_path"}

\* the option lists with at most one --ignore-images
OptionLists ==
    {opts \in UNION {[1..n -> Options] : n \in 0..MaxOptions} :
        Cardinality({k \in 1..Len(opts) : FromFile(opts[k])}) <= 1}

OptionArgs(option) ==
    CASE option.opt = "ignore" -> <<IGNORE, PatternText(option.part)>>
      [] option.opt = "ignore_without_pattern" -> <<IGNORE>>
      [] option.opt = "ignore_images" -> <<IGNORE_IMAGES, IgnoreFilePath>>
      [] option.opt = "ignore_images_without_path" -> <<IGNORE_IMAGES>>

\* sys.argv: the Dockerfile, then the options
RECURSIVE Argv(_)
Argv(opts) ==
    IF opts = <<>> THEN << <<"D">> >>
    ELSE Argv(SubSeq(opts, 1, Len(opts) - 1)) \o OptionArgs(opts[Len(opts)])

NonBlank(text) == text # <<>>

IsPatternLine(text) == text # <<>> /\ Head(text) # "#"

Cores(parts) == [k \in 1..Len(parts) |-> parts[k].core]

\* the patterns a caller supplies with these entries
MeantPatterns(parts) == SelectSeq(Cores(parts), NonBlank)

\* the patterns a file supplies: none when its load fails
MeantLines(file) ==
    IF file.isfile /\ file.readable = Len(file.parts)
    THEN SelectSeq(Cores(file.parts), IsPatternLine)
    ELSE <<>>

\* the entries of the --ignore options, in command-line order
RECURSIVE OptionParts(_)
OptionParts(opts) ==
    IF opts = <<>> THEN <<>>
    ELSE (IF Head(opts).opt = "ignore" THEN <<Head(opts).part>> ELSE <<>>)
         \o OptionParts(Tail(opts))

\* the patterns a command line supplies: --ignore patterns, then the file's
MeantOptions(opts, file) ==
    MeantPatterns(OptionParts(opts))
    \o (IF \E k \in 1..Len(opts) : opts[k].opt = "ignore_images"
        THEN MeantLines(file) ELSE <<>>)

batch == <<all_results, image_count>>

scanner == <<scan_results, futures, yielded>>

InitIgnore ==
    /\ phase = "constructed"
    /\ args = [fn |-> "__init__"]
    /\ ret = None
    /\ NotAnalyzing
    /\ NoObjects

\* self.patterns becomes list; a list handed out shared is the same object
Stored(list) ==
    /\ Len(list) <= MaxPatterns
    /\ patterns' = list
    /\ handed' = IF handed # None /\ handed[1].shared
                 THEN Some([handed[1] EXCEPT !.list = list])
                 ELSE handed

\* the call on the manager returns
ManagerReturns(call, result) ==
    /\ phase' = "returned"
    /\ args' = call
    /\ ret' = result
    /\ UNCHANGED <<locals, batch, scanner>>

AddPattern ==
    \E part \in PatternParts :
        /\ Stored(add_pattern(patterns, PatternText(part)))
        /\ supplied' = supplied \o MeantPatterns(<<part>>)
        /\ ManagerReturns([fn |-> "add_pattern"], None)

AddPatternsFromList ==
    \E parts \in PartLists :
        /\ Stored(add_patterns_from_list(patterns, PatternTexts(parts)))
        /\ supplied' = supplied \o MeantPatterns(parts)
        /\ ManagerReturns([fn |-> "add_patterns_from_list"], None)

LoadPatternsFromFile ==
    \E file \in Files :
        LET loaded == load_patterns_from_file(patterns, file) IN
        /\ Stored(loaded.patterns)
        /\ supplied' = supplied \o MeantLines(file)
        /\ ManagerReturns([fn |-> "load_patterns_from_file"],
                          Some(loaded.result))

GetPatterns ==
    /\ patterns' = patterns
    /\ handed' = Some(get_patterns(patterns))
    /\ supplied' = supplied
    /\ ManagerReturns([fn |-> "get_patterns"], Some(patterns))

SomethingElse == <<"x">>

\* the caller appends to the list get_patterns returned
CallerAppends ==
    /\ handed # None
    /\ ~InList(SomethingElse, handed[1].list)
    /\ handed' = Some([handed[1] EXCEPT !.list = Append(@, SomethingElse)])
    /\ patterns' = IF handed[1].shared
                   THEN Append(patterns, SomethingElse)
                   ELSE patterns
    /\ supplied' = supplied
    /\ UNCHANGED <<phase, args, ret, locals, batch, scanner>>

\* parse_ignore_options builds the manager from the command line
ParseIgnoreOptions ==
    /\ phase = "constructed"
    /\ \E opts \in OptionLists, file \in Files :
        /\ Stored(parse_ignore_options(Argv(opts),
                                       [path \in {IgnoreFilePath} |-> file]))
        /\ supplied' = MeantOptions(opts, file)
        /\ ManagerReturns([fn |-> "parse_ignore_options"], None)

NextIgnore ==
    \/ AddPattern
    \/ AddPatternsFromList
    \/ LoadPatternsFromFile
    \/ GetPatterns
    \/ CallerAppends
    \/ ParseIgnoreOptions

SpecIgnore == InitIgnore /\ [][NextIgnore]_vars

\* C27: after any calls of add_pattern, add_patterns_from_list and
\* load_patterns_from_file (or parse_ignore_options) the stored list is
\* exactly the stripped non-blank patterns supplied, in the order they were
\* added, --ignore patterns before file patterns; a failed load supplies
\* nothing and the list handed out by get_patterns is not the manager's.
C27_PatternListExact == patterns = supplied

-----------------------------------------------------------------------------
(* The batch drivers: analyze_dockerfile (main.py) and scan_repository    *)
(* (github_scanner.py, gitlab_scanner.py).  An image of the list is given *)
(* by what its analysis does: the call of analyze_image_tags returns a    *)
(* verdict with a status, or raises.                                      *)

MaxImages == 3       \* a Dockerfile has at most MaxImages images

Statuses == {"UP-TO-DATE", "OUTDATED", "WARNING", "UNKNOWN"}

\* level_name = {...}[version_level] raises KeyError for a level outside
\* 1..3; a rule value of the wrong type raises TypeError
Exceptions == {"KeyError", "TypeError"}

\* first: the outcome of analyze_image_tags(...); again: the outcome of the
\* call repeated without no_info, which scan_repository makes on TypeError
ImageAnalyses ==
    {[first |-> outcome, again |-> outcome] :
        outcome \in Statuses \cup {"KeyError"}}
    \cup {[first |-> "TypeError", again |-> outcome] :
        outcome \in Statuses \cup Exceptions}

BatchCalls ==
    {[fn |-> fn, images |-> images] :
        fn \in {"analyze_dockerfile", "scan_repository"},
        images \in UNION {[1..n -> ImageAnalyses] : n \in 1..MaxImages}}

manager == <<patterns, supplied, handed>>

InitBatch ==
    /\ phase = "called"
    /\ args \in BatchCalls
    /\ ret = None
    /\ NotAnalyzing
    /\ NoManager
    /\ NoScanner
    /\ all_results = <<>>
    /\ image_count = 1

\* the status of the entry scan_repository appends for an image: that of
\* the verdict, or ERROR when the call, or the repeated call, raised
scanned(image) ==
    LET outcome == IF image.first = "TypeError" THEN image.again
                   ELSE image.first
    IN  IF outcome \in Statuses THEN outcome ELSE "ERROR"

\* one round of "for i, info in enumerate(image_info_list, 1)" of
\* analyze_dockerfile: no try around analyze_image_tags
AnalyzeDockerfileImage ==
    /\ phase = "called"
    /\ args.fn = "analyze_dockerfile"
    /\ image_count <= Len(args.images)
    /\ LET outcome == args.images[image_count].first IN
       IF outcome \in Statuses
       THEN /\ all_results' = Append(all_results,
                                [image |-> image_count, status |-> outcome])
            /\ image_count' = image_count + 1
            /\ UNCHANGED <<phase, ret>>
       ELSE /\ phase' = "raised"
            /\ ret' = Some(outcome)
            /\ UNCHANGED batch
    /\ UNCHANGED <<args, locals, manager, scanner>>

\* one round of the loop of scan_repository: try ... except Exception
ScanRepositoryImage ==
    /\ phase = "called"
    /\ args.fn = "scan_repository"
    /\ image_count <= Len(args.images)
    /\ all_results' = Append(all_results,
                             [image  |-> image_count,
                              status |-> scanned(args.images[image_count])])
    /\ image_count' = image_count + 1
    /\ UNCHANGED <<phase, args, ret, locals, manager, scanner>>

\* the loop is over: the driver reports the results
BatchReturns ==
    /\ phase = "called"
    /\ args.fn \in {"analyze_dockerfile", "scan_repository"}
    /\ image_count > Len(args.images)
    /\ phase' = "returned"
    /\ ret' = Some(all_results)
    /\ UNCHANGED <<args, locals, objects>>

NextBatch ==
    \/ AnalyzeDockerfileImage
    \/ ScanRepositoryImage
    \/ BatchReturns

SpecBatch == InitBatch /\ [][NextBatch]_vars

BatchOver ==
    /\ args.fn \in {"analyze_dockerfile", "scan_repository"}
    /\ phase \in {"returned", "raised"}

ResultsOf(k) == {j \in 1..Len(all_results) : all_results[j].image = k}

\* C28: in analyze_dockerfile and in scan_repository an exception raised
\* while one image is analysed does not abort the batch: when the driver is
\* over every image of the list has exactly one result, and every image
\* whose analysis returned a verdict has that verdict's status.
C28_FailureNeverAborts ==
    BatchOver =>
        \A k \in 1..Len(args.images) :
            /\ Cardinality(ResultsOf(k)) = 1
            /\ args.images[k].first \in Statuses =>
                   \A j \in ResultsOf(k) :
                       all_results[j].status = args.images[k].first

-----------------------------------------------------------------------------
(* scan_repositories (github_scanner.py, gitlab_scanner.py): the scans of *)
(* the repositories run on a ThreadPoolExecutor and append to             *)
(* self.scan_results.  A repository is given by what its scan does.       *)

MaxRepos   == 2      \* get_repositories returns at most MaxRepos repositories
MaxWorkers == 2      \* max_workers is in 1..MaxWorkers

\* dockerfiles: search_dockerfiles returns none, returns some, or raises;
\* rest: after Dockerfiles were found scan_repository completes or raises
RepoScans ==
    {[dockerfiles |-> "none",   rest |-> "completes"],
     [dockerfiles |-> "raises", rest |-> "completes"],
     [dockerfiles |-> "found",  rest |-> "completes"],
     [dockerfiles |-> "found",  rest |-> "raises"]}

ScanCalls ==
    {[fn |-> "scan_repositories", repos |-> repos, max_workers |-> workers] :
        repos \in UNION {[1..n -> RepoScans] : n \in 1..MaxRepos},
        workers \in 1..MaxWorkers}

\* self.scan_results = []; no future submitted yet
InitScan ==
    /\ phase = "SUBMIT"
    /\ args \in ScanCalls
    /\ ret = None
    /\ NotAnalyzing
    /\ NoManager
    /\ NoBatch
    /\ scan_results = <<>>
    /\ futures = <<>>
    /\ yielded = {}

\* the scans a worker thread is running
Running(futs) == {k \in 1..Len(futs) : futs[k] \in {"RUNNING", "FOUND"}}

\* the scans that returned or raised
Done(futs) == {k \in 1..Len(futs) : futs[k] \in {"FINISHED", "RAISED"}}

\* the work queue of the executor is first in, first out
NextQueued(futs) ==
    CHOOSE k \in 1..Len(futs) :
        futs[k] = "PENDING" /\ \A j \in 1..(k - 1) : futs[j] # "PENDING"

\* self.scan_results after a scan replaced the list by its own result
scan_results_replaced(list, result) == <<result>>

\* self.scan_results.append(result)
scan_results_append(list, result) == Append(list, result)

\* future = executor.submit(self.scan_repository, repo["name"], ...)
Submit ==
    /\ phase = "SUBMIT"
    /\ futures' = Append(futures, "PENDING")
    /\ phase' = IF Len(futures') = Len(args.repos) THEN "AS_COMPLETED"
                ELSE "SUBMIT"
    /\ UNCHANGED <<args, ret, locals, manager, batch, scan_results, yielded>>

\* a worker thread of the pool takes the next scan from the queue
WorkerStarts ==
    /\ \E k \in 1..Len(futures) : futures[k] = "PENDING"
    /\ Cardinality(Running(futures)) < args.max_workers
    /\ futures' = [futures EXCEPT ![NextQueued(futures)] = "RUNNING"]
    /\ UNCHANGED <<phase, args, ret, locals, manager, batch, scan_results,
                   yielded>>

\* scan_repository: dockerfiles = self.search_dockerfiles(repo_name) and
\* the return without an entry when there are none
SearchDockerfiles ==
    \E k \in 1..Len(futures) :
        /\ futures[k] = "RUNNING"
        /\ futures' = [futures EXCEPT ![k] =
              CASE args.repos[k].dockerfiles = "none"   -> "FINISHED"
                [] args.repos[k].dockerfiles = "raises" -> "RAISED"
                [] args.repos[k].dockerfiles = "found"  -> "FOUND"]
        /\ UNCHANGED <<phase, args, ret, locals, manager, batch,
                       scan_results, yielded>>

\* scan_repository: the Dockerfiles are analysed, the result is appended
\* to self.scan_results and returned, unless an exception ends the scan
ScanRepository ==
    \E k \in 1..Len(futures) :
        /\ futures[k] = "FOUND"
        /\ IF args.repos[k].rest = "completes"
           THEN /\ scan_results' = scan_results_append(scan_results,
                        [repository |-> k, status |-> "success"])
                /\ futures' = [futures EXCEPT ![k] = "FINISHED"]
           ELSE /\ futures' = [futures EXCEPT ![k] = "RAISED"]
                /\ UNCHANGED scan_results
        /\ UNCHANGED <<phase, args, ret, locals, manager, batch, yielded>>

\* for i, future in enumerate(as_completed(futures), 1): the result or the
\* exception of a finished scan is printed
AsCompleted ==
    /\ phase = "AS_COMPLETED"
    /\ \E k \in Done(futures) \ yielded : yielded' = yielded \cup {k}
    /\ UNCHANGED <<phase, args, ret, locals, manager, batch, scan_results,
                   futures>>

\* as_completed is exhausted and the with block of the executor is left
ExecutorExits ==
    /\ phase = "AS_COMPLETED"
    /\ yielded = 1..Len(futures)
    /\ Done(futures) = 1..Len(futures)
    /\ phase' = "SUMMARY"
    /\ UNCHANGED <<args, ret, locals, objects>>

\* self.generate_summary_report(output_format) and the scan report
GenerateSummary ==
    /\ phase = "SUMMARY"
    /\ phase' = "returned"
    /\ ret' = Some([total_repos |-> Len(args.repos),
                    repos_with_dockerfiles |->
                        Cardinality({j \in 1..Len(scan_results) :
                            scan_results[j].status = "success"}),
                    results |-> scan_results])
    /\ UNCHANGED <<args, locals, objects>>

NextScan ==
    \/ Submit
    \/ WorkerStarts
    \/ SearchDockerfiles
    \/ ScanRepository
    \/ AsCompleted
    \/ ExecutorExits
    \/ GenerateSummary

SpecScan == InitScan /\ [][NextScan]_vars

Scanning == args.fn = "scan_repositories"

SummaryGenerated == Scanning /\ phase \in {"SUMMARY", "returned"}

Recorded(k) == {j \in 1..Len(scan_results) : scan_results[j].repository = k}

\* C29 as stated: the scans run on at most max_workers threads, and when
\* the summary report is generated all scans have finished and scan_results
\* holds exactly one result for every repository in which a Dockerfile was
\* found, whatever the interleaving.
C29_OneResultPerDockerfileRepo ==
    Scanning =>
        /\ Cardinality(Running(futures)) <= args.max_workers
        /\ SummaryGenerated =>
              /\ Done(futures) = 1..Len(args.repos)
              /\ \A k \in 1..Len(args.repos) :
                    Cardinality(Recorded(k)) =
                        IF args.repos[k].dockerfiles = "found" THEN 1 ELSE 0

\* C29 amended: the same, with exactly one result for every repository in
\* which a Dockerfile was found and whose scan did not raise, and none for
\* the others: a scan that raises does not keep the other scans from being
\* recorded, but leaves no result of its own.
C29_OneResultPerCompletedScan ==
    Scanning =>
        /\ Cardinality(Running(futures)) <= args.max_workers
        /\ SummaryGenerated =>
              /\ Done(futures) = 1..Len(args.repos)
              /\ \A k \in 1..Len(args.repos) :
                    Cardinality(Recorded(k)) =
                        IF /\ args.repos[k].dockerfiles = "found"
                           /\ args.repos[k].rest = "completes"
                        THEN 1 ELSE 0

\* the report is out, a scan raised after its Dockerfiles were found and
\* another repository is recorded
C29_Witness ==
    /\ Scanning
    /\ phase = "returned"
    /\ \E k \in 1..Len(args.repos) :
          /\ futures[k] = "RAISED"
          /\ args.repos[k].dockerfiles = "found"
    /\ scan_results # <<>>

\* two scans ran at the same time and the later repository was recorded
\* first
C29_WitnessAnyOrder ==
    /\ Scanning
    /\ phase = "returned"
    /\ Len(scan_results) = 2
    /\ scan_results[1].repository > scan_results[2].repository

\* the pool is full and a scan waits in the queue
C29_WitnessPoolFull ==
    /\ Scanning
    /\ Cardinality(Running(futures)) = args.max_workers
    /\ \E k \in 1..Len(futures) : futures[k] = "PENDING"

====
